---- MODULE Spec2Model ----
(***************************************************************************)
(* Navigation engine of the resuscitation handbook app: the card graph,    *)
(* the loader's normalisation, the decision helpers, the anchor engine,    *)
(* the wheel physics, advance/rewind, the three drag handlers (knob,       *)
(* decision option, zone), the tap handlers, the timer and the automation  *)
(* API.  Angles are whole degrees; card ids, labels and sources are        *)
(* strings; JavaScript null/undefined ids are the empty string; array      *)
(* indices are 0-based as in the source (sequence position = index + 1).   *)
(* The ISO timestamp of a decisionTrail entry is not modelled.             *)
(***************************************************************************)
EXTENDS Integers, Sequences, FiniteSets, TLC

VARIABLES
    algo,               \* store.ts RUNTIME_ALGORITHM and DECK: the algorithm loaded, its card map
    state,              \* store.ts `state` (AppState)
    liveIntervals,      \* number of setInterval timers installed and not cleared
    isDraggingKnob,     \* knob.ts module variable
    isDraggingDecision, \* decision-cards.ts module variable
    draggedElement,     \* decision-cards.ts: TRUE iff draggedElement is non-null
    dragStartY,         \* decision-cards.ts
    drag,               \* zone-drag.ts `drag` (DragState)
    docListeners,       \* pointer-up listeners added to document by the drag starts, in order
    ev                  \* the last handler that ran: its event, the navigation call it made

vars == <<algo, state, liveIntervals, isDraggingKnob, isDraggingDecision,
          draggedElement, dragStartY, drag, docListeners, ev>>

----------------------------------------------------------------------------
(* Bounds of the model *)

MaxHistory == 2
MaxTrail == 1
MaxTimer == 1
MaxVisual == 720
MaxChain == 2
MaxLoopHistory == 4
MaxLoopTrail == 3

(* Program constants *)

NAV_THRESHOLD_DEG == 10
ZONE_THRESHOLD_PCT == 35
DECISION_CONFIRM_PX == 60
INITIAL_ANGLE == 330
FULL_TURN == 360
HALF_TURN == 180
NullAngle == -1

NoId == ""

(* Inputs of the pointer events *)
PointerAngles == {305, 320}
ClientYs == {229, 360, 371}
ZoneStartYs == {300}
ZoneHeights == {200}
DecisionStartYs == {300}
RequestedIndices == {-1, 0, 1, 2, 3}
KnobTargets == {d \in 0..359 : d % 10 = 0}
UiSources == {"ui", "wheel-drag", "zone-drag", "decision-confirm", "wheel-tap", "knob-tap"}
Sources == UiSources \cup {"automation"}

----------------------------------------------------------------------------
(* Generic helpers *)

Range(s) == {s[i] : i \in DOMAIN s}

Min(a, b) == IF a < b THEN a ELSE b

Max(a, b) == IF a > b THEN a ELSE b

Abs(x) == IF x < 0 THEN -x ELSE x

\* JavaScript's % : the remainder takes the sign of the dividend
JsRem(n, m) == IF n >= 0 THEN n % m ELSE -((-n) % m)

----------------------------------------------------------------------------
(* Algorithm JSON files as handed to applyAlgorithm (before normalisation) *)

NoTransitions == [type |-> "none", next_id |-> NoId, options |-> <<>>]

Linear(next) == [type |-> "linear", next_id |-> next, options |-> <<>>]

SelfLoop(next) == [type |-> "self_loop", next_id |-> next, options |-> <<>>]

Split(opts) == [type |-> "split", next_id |-> NoId, options |-> opts]

Opt(label, target) == [label |-> label, target_id |-> target]

RawCard(id, type, status, phase, transitions, slides, checklist) ==
    [id |-> id, type |-> type, status |-> status, phase |-> phase,
     transitions |-> transitions, slides |-> slides, checklist |-> checklist]

\* wheel_arc absent: every field falls back to DEFAULT_WHEEL_ARC
NoArc == [start_degrees |-> NullAngle, end_degrees |-> NullAngle, direction |-> ""]

\* A cut of the inline default algorithm: cover, assessment, decision, CPR loop
AlgoBls ==
    [algorithm_meta |-> [wheel_arc |-> NoArc, auto_start_on_card |-> NoId],
     deck |-> <<
        RawCard("START", "cover", "", "start_point", Linear("ASSESS"), 0, <<>>),
        RawCard("ASSESS", "carousel_action", "", "assessment", Linear("BREATHING"), 2, <<"chk_safe">>),
        RawCard("BREATHING", "decision", "", "decision",
                Split(<<Opt("YES", "END_OBSERVE"), Opt("NO", "CPR")>>), 0, <<>>),
        RawCard("END_OBSERVE", "terminal", "complete", "complete", NoTransitions, 0, <<>>),
        RawCard("CPR", "loop_start", "", "cpr_loop", Linear("LOOP_CHECK"), 0, <<>>),
        RawCard("LOOP_CHECK", "decision", "", "cpr_loop",
                Split(<<Opt("NO", "CPR"), Opt("YES", "END_RECOVERY")>>), 0, <<>>),
        RawCard("END_RECOVERY", "terminal", "complete", "complete", NoTransitions, 0, <<>>)
     >>]

\* An authoring-error deck: omitted transitions, a split on a card that is not of
\* type decision, dangling targets, an option without target, a self loop, a
\* complete card that still has a transition, a decision card without split,
\* a clockwise arc, a timer start card
AlgoEdge ==
    [algorithm_meta |-> [wheel_arc |-> [start_degrees |-> 30, end_degrees |-> 330,
                                        direction |-> "clockwise"],
                         auto_start_on_card |-> "PICK"],
     deck |-> <<
        RawCard("A", "standard", "", "", NoTransitions, 0, <<>>),
        RawCard("PICK", "decision", "", "",
                Split(<<Opt("GONE", "GHOST"), Opt("SKIP", NoId), Opt("", "FORK")>>),
                0, <<>>),
        RawCard("FORK", "standard", "", "",
                Split(<<Opt("L", "DONE"), Opt("R", "HOLD")>>), 0, <<>>),
        RawCard("HOLD", "action", "", "loop", SelfLoop(NoId), 0, <<>>),
        RawCard("DONE", "standard", "complete", "", Linear("A"), 0, <<>>),
        RawCard("LOST", "decision", "", "", Linear("NOWHERE"), 0, <<>>)
     >>]

RawAlgorithms == {AlgoBls, AlgoEdge}

----------------------------------------------------------------------------
(* algorithms/loader.ts *)

DEFAULT_WHEEL_ARC == [start_degrees |-> 330, end_degrees |-> 30, direction |-> "anticlockwise"]

normalizeDegrees(deg) ==
    LET mod == JsRem(deg, FULL_TURN)
    IN  IF mod < 0 THEN mod + FULL_TURN ELSE mod

normalizeWheelArc(rawMeta) ==
    LET raw == rawMeta.wheel_arc
    IN  [direction |-> IF (IF raw.direction = "" THEN DEFAULT_WHEEL_ARC.direction
                           ELSE raw.direction) = "anticlockwise"
                       THEN "anticlockwise" ELSE "clockwise",
         start_degrees |-> IF raw.start_degrees = NullAngle
                           THEN DEFAULT_WHEEL_ARC.start_degrees
                           ELSE normalizeDegrees(raw.start_degrees),
         end_degrees |-> IF raw.end_degrees = NullAngle
                         THEN DEFAULT_WHEEL_ARC.end_degrees
                         ELSE normalizeDegrees(raw.end_degrees)]

inferPhase(card) ==
    IF card.phase # ""
    THEN (IF card.phase = "cpr_loop" THEN "loop" ELSE card.phase)
    ELSE IF card.type = "" THEN "action"
    ELSE IF card.type = "cover" THEN "start_point"
    ELSE IF card.type = "decision" THEN "decision"
    ELSE IF card.type = "terminal" THEN "complete"
    ELSE IF card.type = "loop_start" THEN "loop"
    ELSE "action"

\* the loader's default label of the idx-th kept option: `Option ${idx + 1}`
DefaultOptionLabel(i) == <<"Option 1", "Option 2", "Option 3", "Option 4">>[i]

\* Faulty variant of normalizeTransitions: omitted transitions stay null
normalizeTransitionsUnlinked(card, index, cards) ==
    IF card.transitions.type = "none" THEN NoTransitions
    ELSE IF card.transitions.type = "self_loop"
    THEN SelfLoop(IF card.transitions.next_id # NoId THEN card.transitions.next_id
                  ELSE card.id)
    ELSE card.transitions

normalizeTransitions(card, index, cards) ==
    LET raw == card.transitions
        isTerminalLike == card.type = "terminal" \/ card.status = "complete"
                          \/ card.status = "handoff"
        hasNext == index + 1 <= Len(cards)
        KeepOpt(opt) == opt.target_id # NoId
        kept == SelectSeq(raw.options, KeepOpt)
        options == [i \in DOMAIN kept |->
                      [label |-> IF kept[i].label # "" THEN kept[i].label
                                 ELSE DefaultOptionLabel(i),
                       target_id |-> kept[i].target_id]]
        linearNext == IF raw.next_id # NoId THEN raw.next_id
                      ELSE IF ~isTerminalLike /\ hasNext THEN cards[index + 1].id
                      ELSE NoId
    IN  IF raw.type = "none"
        THEN (IF isTerminalLike THEN NoTransitions
              ELSE IF hasNext THEN Linear(cards[index + 1].id) ELSE NoTransitions)
        ELSE IF raw.type = "split" /\ Len(options) > 0 THEN Split(options)
        ELSE IF raw.type = "self_loop"
        THEN SelfLoop(IF raw.next_id # NoId THEN raw.next_id ELSE card.id)
        ELSE IF linearNext # NoId THEN Linear(linearNext)
        ELSE NoTransitions

normalizeAlgorithm(rawAlgorithm) ==
    LET HasId(card) == card.id # NoId
        cards == SelectSeq(rawAlgorithm.deck, HasId)
    IN  [algorithm_meta |-> [wheel_arc |-> normalizeWheelArc(rawAlgorithm.algorithm_meta),
                             auto_start_on_card |->
                                 rawAlgorithm.algorithm_meta.auto_start_on_card],
         deck |-> [i \in DOMAIN cards |->
                     [cards[i] EXCEPT !.phase = inferPhase(cards[i]),
                                      !.transitions = normalizeTransitions(cards[i], i, cards)]]]

----------------------------------------------------------------------------
(* state/store.ts: RUNTIME_ALGORITHM and DECK.  The operations below take the
   two as a = [RUNTIME_ALGORITHM, DECK]. *)

EmptyAlgorithm == [algorithm_meta |-> [wheel_arc |-> NoArc, auto_start_on_card |-> NoId],
                   deck |-> <<>>]

RUNTIME_ALGORITHM(a) == a.RUNTIME_ALGORITHM

\* rebuildDeckMap: a later card with the same id replaces an earlier one
rebuildDeckMap(cards) ==
    [id \in {cards[i].id : i \in DOMAIN cards} |->
        cards[CHOOSE i \in DOMAIN cards :
                /\ cards[i].id = id
                /\ \A j \in DOMAIN cards : cards[j].id = id => j <= i]]

\* setRuntimeAlgorithm(algo) followed by rebuildDeckMap(algo.deck)
setRuntimeAlgorithm(algorithm) ==
    [RUNTIME_ALGORITHM |-> algorithm, DECK |-> rebuildDeckMap(algorithm.deck)]

DECK(a) == a.DECK

CardIds(a) == DOMAIN DECK(a)

HasCard(a, id) == id \in CardIds(a)

\* Names every JavaScript object inherits from Object.prototype: DECK is created
\* as {} (state/store.ts), so DECK[name] yields the inherited member, which is
\* truthy and has no id, type or transitions (two of the names stand for all)
ObjectPrototypeKeys == {"constructor", "toString"}

\* DECK[id] is truthy: a card of the deck or an inherited member
deckEntry(a, id) == HasCard(a, id) \/ id \in ObjectPrototypeKeys

\* DECK[id].transitions of a truthy DECK[id]
entryTransitions(a, id) == IF HasCard(a, id) THEN DECK(a)[id].transitions ELSE NoTransitions

AllCardIds == UNION {{raw.deck[i].id : i \in DOMAIN raw.deck} : raw \in RawAlgorithms}

----------------------------------------------------------------------------
(* state/decisions.ts *)

isSplitDecisionCard(a, id) ==
    /\ HasCard(a, id)
    /\ DECK(a)[id].transitions.type = "split"
    /\ Len(DECK(a)[id].transitions.options) > 0

\* Faulty variant of normalizeDecisionIndexForCard: no lower clamp
normalizeDecisionIndexNoFloor(a, id, requestedIndex) ==
    IF ~HasCard(a, id) \/ DECK(a)[id].transitions.type # "split" THEN 0
    ELSE IF Len(DECK(a)[id].transitions.options) = 0 THEN 0
    ELSE Min(Len(DECK(a)[id].transitions.options) - 1, requestedIndex)

\* requestedIndex is an integer here, so Number.isFinite / Math.floor keep it
normalizeDecisionIndexForCard(a, id, requestedIndex) ==
    IF ~HasCard(a, id) \/ DECK(a)[id].transitions.type # "split" THEN 0
    ELSE LET options == DECK(a)[id].transitions.options
         IN  IF Len(options) = 0 THEN 0
             ELSE Max(0, Min(Len(options) - 1, requestedIndex))

\* Faulty variant of rememberedDecisionIndexForCard: the committed record of the
\* card is not looked at
rememberedDecisionIndexLive(a, s, id) ==
    IF ~isSplitDecisionCard(a, id) THEN 0
    ELSE normalizeDecisionIndexForCard(a, id, s.decisionIndex)

rememberedDecisionIndexForCard(a, s, id) ==
    IF ~isSplitDecisionCard(a, id) THEN 0
    ELSE normalizeDecisionIndexForCard(a, id,
            IF id \in DOMAIN s.decisionRecords THEN s.decisionRecords[id]
            ELSE s.decisionIndex)

----------------------------------------------------------------------------
(* wheel/fsm.ts and wheel/gestures.ts *)

\* Faulty variant of computeWheelMode: the loop phase is looked at first
computeWheelModeLoopFirst(a, id) ==
    IF ~HasCard(a, id) THEN "LINEAR"
    ELSE IF DECK(a)[id].phase \in {"cpr_loop", "loop"} THEN "LOOP"
    ELSE IF DECK(a)[id].type = "cover" THEN "COVER"
    ELSE IF DECK(a)[id].type = "decision" THEN "DECISION"
    ELSE IF DECK(a)[id].type = "terminal" THEN "TERMINAL"
    ELSE "LINEAR"

computeWheelMode(a, id) ==
    IF ~HasCard(a, id) THEN "LINEAR"
    ELSE IF DECK(a)[id].type = "cover" THEN "COVER"
    ELSE IF DECK(a)[id].type = "decision" THEN "DECISION"
    ELSE IF DECK(a)[id].type = "terminal" THEN "TERMINAL"
    ELSE IF DECK(a)[id].phase \in {"cpr_loop", "loop"} THEN "LOOP"
    ELSE "LINEAR"

\* Faulty variant of isForwardGesture: a delta of exactly the threshold counts
isForwardGestureInclusive(delta, arc) ==
    IF arc.direction = "anticlockwise" THEN delta >= NAV_THRESHOLD_DEG
    ELSE delta <= -NAV_THRESHOLD_DEG

isForwardGesture(delta, arc) ==
    IF arc.direction = "anticlockwise" THEN delta > NAV_THRESHOLD_DEG
    ELSE delta < -NAV_THRESHOLD_DEG

isReverseGesture(delta, arc) ==
    IF arc.direction = "anticlockwise" THEN delta < -NAV_THRESHOLD_DEG
    ELSE delta > NAV_THRESHOLD_DEG

----------------------------------------------------------------------------
(* wheel/physics.ts *)

\* meta.wheel_arc was normalised by the loader; it is normalised again here
getCurrentWheelArc(a) == normalizeWheelArc(RUNTIME_ALGORITHM(a).algorithm_meta)

\* Faulty variant of setKnobPosition: the difference is not wrapped into [-180, 180]
setKnobPositionNoWrap(lastVisual, deg) ==
    lastVisual + (normalizeDegrees(deg) - normalizeDegrees(lastVisual))

\* the new visualAngle after setKnobPosition(deg), from the last one
setKnobPosition(lastVisual, deg) ==
    LET targetDeg == normalizeDegrees(deg)
        normalizedLast == normalizeDegrees(lastVisual)
        diff0 == targetDeg - normalizedLast
        diff1 == IF diff0 > HALF_TURN THEN diff0 - FULL_TURN ELSE diff0
        diff == IF diff1 < -HALF_TURN THEN diff1 + FULL_TURN ELSE diff1
    IN  lastVisual + diff

angleDelta(fromDeg, toDeg) ==
    LET delta0 == fromDeg - toDeg
        delta1 == IF delta0 > HALF_TURN THEN delta0 - FULL_TURN ELSE delta0
    IN  IF delta1 < -HALF_TURN THEN delta1 + FULL_TURN ELSE delta1

isAngleWithinArc(angle, arc) ==
    LET deg == normalizeDegrees(angle)
    IN  IF arc.direction = "anticlockwise"
        THEN JsRem(arc.start_degrees - deg + FULL_TURN, FULL_TURN)
                <= JsRem(arc.start_degrees - arc.end_degrees + FULL_TURN, FULL_TURN)
        ELSE JsRem(deg - arc.start_degrees + FULL_TURN, FULL_TURN)
                <= JsRem(arc.end_degrees - arc.start_degrees + FULL_TURN, FULL_TURN)

shortestAngularDistance(x, y) ==
    LET diff == Abs(normalizeDegrees(x) - normalizeDegrees(y))
    IN  Min(diff, FULL_TURN - diff)

clampAngleToArc(angle, arc) ==
    LET deg == normalizeDegrees(angle)
    IN  IF isAngleWithinArc(deg, arc) THEN deg
        ELSE IF shortestAngularDistance(deg, arc.start_degrees)
                    <= shortestAngularDistance(deg, arc.end_degrees)
        THEN arc.start_degrees
        ELSE arc.end_degrees

----------------------------------------------------------------------------
(* navigation/anchors.ts *)

\* Faulty variant of angleOnArc: the arc is always walked clockwise
angleOnArcClockwise(arc, num, den) ==
    LET cwDistance == JsRem(arc.end_degrees - arc.start_degrees + FULL_TURN, FULL_TURN)
        mod == JsRem(arc.start_degrees + (cwDistance * num) \div den, FULL_TURN)
    IN  IF mod < 0 THEN mod + FULL_TURN ELSE mod

\* ratio = num / den, 0 <= num <= den; the decks keep distance * num / den whole
angleOnArc(arc, num, den) ==
    LET cwDistance == JsRem(arc.end_degrees - arc.start_degrees + FULL_TURN, FULL_TURN)
        ccwDistance == JsRem(arc.start_degrees - arc.end_degrees + FULL_TURN, FULL_TURN)
        n == IF arc.direction = "anticlockwise"
             THEN arc.start_degrees - (ccwDistance * num) \div den
             ELSE arc.start_degrees + (cwDistance * num) \div den
        mod == JsRem(n, FULL_TURN)
    IN  IF mod < 0 THEN mod + FULL_TURN ELSE mod

currentAlgorithmStartId(a) ==
    IF Len(RUNTIME_ALGORITHM(a).deck) > 0 THEN RUNTIME_ALGORITHM(a).deck[1].id ELSE NoId

RECURSIVE countPathLength(_, _, _)
countPathLength(a, cardId, visited) ==
    IF cardId = NoId \/ ~deckEntry(a, cardId) \/ cardId \in visited THEN 0
    ELSE LET t == entryTransitions(a, cardId)
             seen == visited \cup {cardId}
         IN  IF t.type = "linear" THEN 1 + countPathLength(a, t.next_id, seen)
             ELSE IF t.type = "split"
             THEN 1 + countPathLength(a, IF Len(t.options) > 0 THEN t.options[1].target_id
                                         ELSE NoId, seen)
             ELSE IF t.type = "self_loop" /\ t.next_id # cardId
             THEN 1 + countPathLength(a, t.next_id, seen)
             ELSE 1

\* the for-loop of longestBranchTarget from option i on, as [target, length]
RECURSIVE longestBranchScan(_, _, _, _, _)
longestBranchScan(a, options, visited, i, best) ==
    IF i > Len(options) THEN best
    ELSE LET target == options[i].target_id
         IN  IF target = NoId \/ ~deckEntry(a, target) \/ target \in visited
             THEN longestBranchScan(a, options, visited, i + 1, best)
             ELSE LET len == countPathLength(a, target, visited)
                  IN  longestBranchScan(a, options, visited, i + 1,
                          IF len > best.length
                          THEN [target |-> target, length |-> len] ELSE best)

longestBranchTarget(a, cardId, visited) ==
    LET t == entryTransitions(a, cardId)
        best == longestBranchScan(a, t.options, visited, 1,
                                  [target |-> NoId, length |-> -1])
    IN  IF t.type # "split" THEN NoId
        ELSE IF best.target # NoId THEN best.target
        ELSE IF Len(t.options) > 0 THEN t.options[1].target_id
        ELSE NoId

\* One pass of the loop body of computeForwardPath for the card just pushed:
\* the next cardId, NoId where the body breaks or yields null
forwardStep(a, records, cardId, visited) ==
    LET t == entryTransitions(a, cardId)
    IN  IF t.type = "linear" THEN t.next_id
        ELSE IF t.type = "split"
        THEN (IF cardId \in DOMAIN records
              THEN (IF records[cardId] + 1 \in DOMAIN t.options
                    THEN t.options[records[cardId] + 1].target_id ELSE NoId)
              ELSE longestBranchTarget(a, cardId, visited))
        ELSE IF t.type = "self_loop" /\ t.next_id # cardId THEN t.next_id
        ELSE NoId

\* the while loop of computeForwardPath: one id is pushed per pass
RECURSIVE forwardWalk(_, _, _, _)
forwardWalk(a, records, cardId, path) ==
    IF cardId = NoId \/ ~deckEntry(a, cardId) \/ cardId \in Range(path) THEN path
    ELSE forwardWalk(a, records,
                     forwardStep(a, records, cardId, Range(path) \cup {cardId}),
                     Append(path, cardId))

computeForwardPath(a, records) ==
    forwardWalk(a, records, currentAlgorithmStartId(a), <<>>)

\* the anchors computeAnchors places for a path on an arc
anchorsOnArc(path, arc) ==
    IF Len(path) = 0 THEN <<>>
    ELSE IF Len(path) = 1 THEN <<[id |-> path[1], angle |-> arc.start_degrees]>>
    ELSE [i \in DOMAIN path |->
            [id |-> path[i], angle |-> angleOnArc(arc, i - 1, Len(path) - 1)]]

computeAnchors(a, records) ==
    anchorsOnArc(computeForwardPath(a, records), getCurrentWheelArc(a))

\* Array.findIndex: the 0-based index of the first anchor of the card, or -1
findAnchorIndex(anchors, cardId) ==
    IF \E i \in DOMAIN anchors : anchors[i].id = cardId
    THEN (CHOOSE i \in DOMAIN anchors :
            /\ anchors[i].id = cardId
            /\ \A j \in DOMAIN anchors : anchors[j].id = cardId => i <= j) - 1
    ELSE -1

currentAnchorAngle(a, s) ==
    IF s.anchorIndex >= 0 /\ s.anchorIndex < Len(s.anchors)
    THEN s.anchors[s.anchorIndex + 1].angle
    ELSE getCurrentWheelArc(a).start_degrees

\* Faulty variant of syncAnchors: the index found is stored even when it is -1
syncAnchorsNoFallback(a, s) ==
    LET Sync(anchors, idx) == [s EXCEPT !.anchors = anchors, !.anchorIndex = idx]
        Find(anchors) == Sync(anchors, findAnchorIndex(anchors, s.currentId))
    IN  Find(computeAnchors(a, s.decisionRecords))

syncAnchors(a, s) ==
    LET Sync(anchors, idx) ==
            [s EXCEPT !.anchors = anchors,
                      !.anchorIndex = IF idx >= 0 THEN idx ELSE Max(0, Len(anchors) - 1)]
        Find(anchors) == Sync(anchors, findAnchorIndex(anchors, s.currentId))
    IN  Find(computeAnchors(a, s.decisionRecords))

----------------------------------------------------------------------------
(* state/store.ts: the initial `state` *)

EmptyMap == [k \in {} |-> 0]

InitialState ==
    [currentId |-> "CARD_00_START",
     history |-> <<>>,
     decisionIndex |-> 0,
     decisionRecords |-> EmptyMap,
     decisionTrail |-> <<>>,
     decisionTapped |-> FALSE,
     carouselIndex |-> 0,
     timerSeconds |-> 0,
     timerRunning |-> FALSE,
     timerInterval |-> 0,
     checklistState |-> EmptyMap,
     anchors |-> <<>>,
     anchorIndex |-> 0,
     wheel |-> [mode |-> "COVER", angle |-> INITIAL_ANGLE, visualAngle |-> INITIAL_ANGLE,
                dragOrigin |-> NullAngle, navConsumed |-> FALSE]]

\* obj[key] = value on a JavaScript object used as a map
MapSet(m, key, value) == [k \in DOMAIN m \cup {key} |-> IF k = key THEN value ELSE m[k]]

\* The operations below work on w = [state, live, ret]: the `state` object, the
\* number of installed intervals, and the value the operation returns.

----------------------------------------------------------------------------
(* ui/timer.ts *)

\* Faulty variant of startTimer: no interval is installed, the timer stays off
startTimerNever(w) == w

startTimer(w) ==
    [w EXCEPT !.state.timerRunning = TRUE,
              !.state.timerInterval = 1,
              !.live = w.live + 1]

\* Faulty variant of resetTimerState: the installed interval is not cleared
resetTimerStateLeaky(w) ==
    [w EXCEPT !.state.timerInterval = 0,
              !.state.timerRunning = FALSE,
              !.state.timerSeconds = 0]

resetTimerState(w) ==
    [w EXCEPT !.state.timerInterval = 0,
              !.state.timerRunning = FALSE,
              !.state.timerSeconds = 0,
              !.live = IF w.state.timerInterval # 0 THEN w.live - 1 ELSE w.live]

----------------------------------------------------------------------------
(* cards/renderer.ts *)

render(a, s) ==
    LET Place(s2, angle) ==
            [s2 EXCEPT !.wheel.angle = angle,
                       !.wheel.visualAngle = setKnobPosition(s2.wheel.visualAngle, angle)]
        Synced(s2) == Place(s2, currentAnchorAngle(a, s2))
    IN  IF ~HasCard(a, s.currentId) THEN s
        ELSE Synced(syncAnchors(a, [s EXCEPT !.wheel.mode =
                                                 computeWheelMode(a, s.currentId)]))

----------------------------------------------------------------------------
(* navigation/advance.ts *)

\* Faulty variant of commitSplit: a record once written is never overwritten
commitSplitFirstKept(a, s, source) ==
    LET id == s.currentId
        options == DECK(a)[id].transitions.options
        pickedIndex == normalizeDecisionIndexForCard(a, id, s.decisionIndex)
        picked == options[pickedIndex + 1]
    IN  [s EXCEPT !.decisionRecords = MapSet(s.decisionRecords, id,
                          IF id \in DOMAIN s.decisionRecords THEN s.decisionRecords[id]
                          ELSE pickedIndex),
                  !.decisionTrail = Append(s.decisionTrail,
                      [card_id |-> id,
                       option_index |-> pickedIndex,
                       option_label |-> IF picked.label # "" THEN picked.label
                                        ELSE DefaultOptionLabel(pickedIndex + 1),
                       target_id |-> picked.target_id,
                       interaction |-> "forward-decision-confirm",
                       source |-> source])]

\* decisionRecords and decisionTrail after the split branch of advance
commitSplit(a, s, source) ==
    LET id == s.currentId
        options == DECK(a)[id].transitions.options
        pickedIndex == normalizeDecisionIndexForCard(a, id, s.decisionIndex)
        picked == options[pickedIndex + 1]
    IN  [s EXCEPT !.decisionRecords = MapSet(s.decisionRecords, id, pickedIndex),
                  !.decisionTrail = Append(s.decisionTrail,
                      [card_id |-> id,
                       option_index |-> pickedIndex,
                       option_label |-> IF picked.label # "" THEN picked.label
                                        ELSE DefaultOptionLabel(pickedIndex + 1),
                       target_id |-> picked.target_id,
                       interaction |-> "forward-decision-confirm",
                       source |-> source])]

\* Faulty variant of resolveNextId: a split always resolves to its first option
resolveNextIdFirstOption(a, s) ==
    LET id == s.currentId
        t == DECK(a)[id].transitions
    IN  IF t.type = "linear" THEN t.next_id
        ELSE IF t.type = "split" THEN t.options[1].target_id
        ELSE IF t.type = "self_loop" THEN (IF t.next_id # NoId THEN t.next_id ELSE id)
        ELSE NoId

\* the id advance resolves for the current card (after the guards)
resolveNextId(a, s) ==
    LET id == s.currentId
        t == DECK(a)[id].transitions
    IN  IF t.type = "linear" THEN t.next_id
        ELSE IF t.type = "split"
        THEN t.options[normalizeDecisionIndexForCard(a, id, s.decisionIndex) + 1].target_id
        ELSE IF t.type = "self_loop" THEN (IF t.next_id # NoId THEN t.next_id ELSE id)
        ELSE NoId

\* Faulty variant of splitConfirmedOf: every call counts as confirmed
splitConfirmedAlways(source, splitConfirmedOption) == TRUE

\* line 11 of advance: automation is always pre-confirmed
splitConfirmedOf(source, splitConfirmedOption) ==
    splitConfirmedOption \/ source = "automation"

\* Faulty variant of cardBlocked: the status of the card is not looked at
cardMissing(a, id) == ~HasCard(a, id)

\* line 14 of advance: no card, or a card that is complete
cardBlocked(a, id) == ~HasCard(a, id) \/ DECK(a)[id].status = "complete"

\* Faulty variant of pushHistory: the card left is not pushed
pushHistoryNever(s, nextId) == s.history

\* Faulty variant of pushHistory: the card is pushed even when it does not change
pushHistoryAlways(s, nextId) == Append(s.history, s.currentId)

\* lines 45-47 of advance: history after the move to nextId
pushHistory(s, nextId) ==
    IF nextId # s.currentId THEN Append(s.history, s.currentId) ELSE s.history

\* lines 44-67 of advance: the move to nextId
moveTo(a, w, nextId) ==
    LET autoStartCard == RUNTIME_ALGORITHM(a).algorithm_meta.auto_start_on_card
        shouldStartTimer == autoStartCard = NoId \/ nextId = autoStartCard
        Entered(s1) ==
            [s1 EXCEPT !.decisionIndex = IF isSplitDecisionCard(a, nextId)
                                         THEN rememberedDecisionIndexForCard(a, s1, nextId)
                                         ELSE 0,
                       !.decisionTapped = FALSE,
                       !.carouselIndex = 0]
        Timed(w1) == IF ~w1.state.timerRunning /\ shouldStartTimer THEN startTimer(w1)
                     ELSE w1
        Rendered(w2) == [w2 EXCEPT !.state = render(a, w2.state), !.ret = TRUE]
    IN  Rendered(Timed([w EXCEPT !.state =
            Entered([w.state EXCEPT !.history = pushHistory(w.state, nextId),
                                    !.currentId = nextId])]))

advance(a, w, source, splitConfirmedOption) ==
    LET s == w.state
        id == w.state.currentId
        splitConfirmed == splitConfirmedOf(source, splitConfirmedOption)
        t == DECK(a)[w.state.currentId].transitions
        Move(w1, nextId) == IF nextId # NoId /\ HasCard(a, nextId) THEN moveTo(a, w1, nextId)
                            ELSE [w1 EXCEPT !.ret = FALSE]
    IN  IF cardBlocked(a, id) THEN [w EXCEPT !.ret = FALSE]
        ELSE IF t.type = "none" THEN [w EXCEPT !.ret = FALSE]
        ELSE IF t.type = "split" /\ Len(t.options) = 0 THEN [w EXCEPT !.ret = FALSE]
        ELSE IF t.type = "split" /\ ~splitConfirmed THEN [w EXCEPT !.ret = FALSE]
        ELSE Move(IF t.type = "split" THEN [w EXCEPT !.state = commitSplit(a, s, source)]
                  ELSE w,
                  resolveNextId(a, s))

\* Faulty variant of rewind: a restored decision never shows as selected
rewindUntapped(a, w) ==
    LET s == w.state
        prevId == w.state.history[Len(w.state.history)]
        Restored(s1) ==
            IF isSplitDecisionCard(a, prevId)
            THEN [s1 EXCEPT !.decisionIndex = rememberedDecisionIndexForCard(a, s1, prevId),
                            !.decisionTapped = FALSE,
                            !.carouselIndex = 0]
            ELSE [s1 EXCEPT !.decisionIndex = 0, !.decisionTapped = FALSE,
                            !.carouselIndex = 0]
    IN  IF Len(s.history) <= 0 THEN [w EXCEPT !.ret = FALSE]
        ELSE [w EXCEPT !.state = render(a, Restored(
                           [s EXCEPT !.history = SubSeq(s.history, 1, Len(s.history) - 1),
                                     !.currentId = prevId])),
                       !.ret = TRUE]

\* Faulty variant of rewind: going back also withdraws the last logged decision
rewindDropsTrail(a, w) ==
    LET s == w.state
        prevId == w.state.history[Len(w.state.history)]
        Restored(s1) ==
            IF isSplitDecisionCard(a, prevId)
            THEN [s1 EXCEPT !.decisionIndex = rememberedDecisionIndexForCard(a, s1, prevId),
                            !.decisionTapped = prevId \in DOMAIN s1.decisionRecords,
                            !.carouselIndex = 0]
            ELSE [s1 EXCEPT !.decisionIndex = 0, !.decisionTapped = FALSE,
                            !.carouselIndex = 0]
    IN  IF Len(s.history) <= 0 THEN [w EXCEPT !.ret = FALSE]
        ELSE [w EXCEPT !.state = render(a, Restored(
                           [s EXCEPT !.history = SubSeq(s.history, 1, Len(s.history) - 1),
                                     !.decisionTrail =
                                         SubSeq(s.decisionTrail, 1,
                                                Max(0, Len(s.decisionTrail) - 1)),
                                     !.currentId = prevId])),
                       !.ret = TRUE]

rewind(a, w) ==
    LET s == w.state
        prevId == w.state.history[Len(w.state.history)]
        Restored(s1) ==
            IF isSplitDecisionCard(a, prevId)
            THEN [s1 EXCEPT !.decisionIndex = rememberedDecisionIndexForCard(a, s1, prevId),
                            !.decisionTapped = prevId \in DOMAIN s1.decisionRecords,
                            !.carouselIndex = 0]
            ELSE [s1 EXCEPT !.decisionIndex = 0, !.decisionTapped = FALSE,
                            !.carouselIndex = 0]
    IN  IF Len(s.history) <= 0 THEN [w EXCEPT !.ret = FALSE]
        ELSE [w EXCEPT !.state = render(a, Restored(
                           [s EXCEPT !.history = SubSeq(s.history, 1, Len(s.history) - 1),
                                     !.currentId = prevId])),
                       !.ret = TRUE]

canTapAdvance(a, id) ==
    /\ HasCard(a, id)
    /\ DECK(a)[id].status # "complete"
    /\ ~isSplitDecisionCard(a, id)

----------------------------------------------------------------------------
(* What the last render put on the page (cards/preview-zone.ts, history-zone.ts,
   checklist.ts): the elements a pointer event can land on *)

\* renderPreviewZone took its decision-mode branch
decisionModeRendered(a, s) ==
    /\ HasCard(a, s.currentId)
    /\ DECK(a)[s.currentId].type = "decision"
    /\ DECK(a)[s.currentId].transitions.type = "split"

\* getUpcomingCards(card, 3) is non-empty: a .preview-card exists
previewCardRendered(a, s) ==
    /\ HasCard(a, s.currentId)
    /\ ~decisionModeRendered(a, s)
    /\ LET t == DECK(a)[s.currentId].transitions
           nextId == IF t.type = "linear" THEN t.next_id
                     ELSE IF t.type = "split" /\ Len(t.options) > 0
                     THEN t.options[1].target_id
                     ELSE NoId
       IN  nextId # NoId /\ HasCard(a, nextId)

\* renderHistoryZone drew a .history-card for one of the last three entries
historyCardRendered(a, s) ==
    \E i \in DOMAIN s.history :
        i > Len(s.history) - 3 /\ HasCard(a, s.history[i])

\* a .decision-option-card.selected exists (setupDecisionDrag wired it)
selectedOptionRendered(a, s) ==
    /\ decisionModeRendered(a, s)
    /\ s.decisionTapped
    /\ s.decisionIndex + 1 \in DOMAIN DECK(a)[s.currentId].transitions.options

----------------------------------------------------------------------------
(* The state machine *)

NoDrag == [active |-> FALSE, element |-> FALSE, startY |-> 0, direction |-> "",
           zoneHeight |-> 0]

\* ev: what the last handler was (event: up, cancel, or other) and the navigation
\* call it made (fn: advance, rewind, or none), with the call's effective
\* splitConfirmed and the value it returned
Call(fn, confirmed, ret) == [fn |-> fn, confirmed |-> confirmed, ret |-> ret]

NoCall == Call("none", FALSE, FALSE)

Ev(event, call) == [event |-> event, call |-> call]

W == [state |-> state, live |-> liveIntervals, ret |-> FALSE]

\* W together with the module-level drag variables and the document's listeners
G == [state |-> state, live |-> liveIntervals, ret |-> FALSE,
      isDraggingKnob |-> isDraggingKnob, isDraggingDecision |-> isDraggingDecision,
      draggedElement |-> draggedElement, dragStartY |-> dragStartY, drag |-> drag,
      docListeners |-> docListeners, call |-> NoCall]

Bounded(w) ==
    /\ Len(w.state.history) <= MaxHistory
    /\ Len(w.state.decisionTrail) <= MaxTrail
    /\ Abs(w.state.wheel.visualAngle) <= MaxVisual
    /\ w.state.timerSeconds <= MaxTimer

Commit(w) ==
    /\ Bounded(w)
    /\ state' = w.state
    /\ liveIntervals' = w.live

CommitGesture(g) ==
    /\ Commit(g)
    /\ isDraggingKnob' = g.isDraggingKnob
    /\ isDraggingDecision' = g.isDraggingDecision
    /\ draggedElement' = g.draggedElement
    /\ dragStartY' = g.dragStartY
    /\ drag' = g.drag
    /\ docListeners' = g.docListeners

AddListener(name) ==
    IF name \in Range(docListeners) THEN docListeners ELSE Append(docListeners, name)

RemoveListener(listeners, name) ==
    LET Keep(n) == n # name IN SelectSeq(listeners, Keep)

Init ==
    /\ algo = setRuntimeAlgorithm(EmptyAlgorithm)
    /\ state = InitialState
    /\ liveIntervals = 0
    /\ isDraggingKnob = FALSE
    /\ isDraggingDecision = FALSE
    /\ draggedElement = FALSE
    /\ dragStartY = 0
    /\ drag = NoDrag
    /\ docListeners = <<>>
    /\ ev = Ev("other", NoCall)

\* Faulty variant of applyAlgorithm: the committed decisions survive the load
applyAlgorithmKeepsRecords(a, w) ==
    LET startId == IF currentAlgorithmStartId(a) # NoId THEN currentAlgorithmStartId(a)
                   ELSE "CARD_00_START"
        Rendered(w1) == [w1 EXCEPT !.state = render(a, w1.state)]
    IN  Rendered(resetTimerState([w EXCEPT !.state =
            [w.state EXCEPT !.currentId = startId,
                          !.history = <<>>,
                          !.decisionIndex = 0,
                          !.decisionTrail = <<>>,
                          !.decisionTapped = FALSE,
                          !.carouselIndex = 0,
                          !.checklistState = EmptyMap,
                          !.anchors = <<>>,
                          !.anchorIndex = 0,
                          !.wheel = [mode |-> IF HasCard(a, startId)
                                              THEN computeWheelMode(a, startId)
                                              ELSE "LINEAR",
                                     angle |-> INITIAL_ANGLE,
                                     visualAngle |-> INITIAL_ANGLE,
                                     dragOrigin |-> NullAngle,
                                     navConsumed |-> FALSE]]]))

\* main.ts applyAlgorithm (menu, URL load, automation loadAlgorithm)
applyAlgorithm(a, w) ==
    LET startId == IF currentAlgorithmStartId(a) # NoId THEN currentAlgorithmStartId(a)
                   ELSE "CARD_00_START"
        Rendered(w1) == [w1 EXCEPT !.state = render(a, w1.state)]
    IN  Rendered(resetTimerState([w EXCEPT !.state =
            [w.state EXCEPT !.currentId = startId,
                          !.history = <<>>,
                          !.decisionIndex = 0,
                          !.decisionRecords = EmptyMap,
                          !.decisionTrail = <<>>,
                          !.decisionTapped = FALSE,
                          !.carouselIndex = 0,
                          !.checklistState = EmptyMap,
                          !.anchors = <<>>,
                          !.anchorIndex = 0,
                          !.wheel = [mode |-> IF HasCard(a, startId)
                                              THEN computeWheelMode(a, startId)
                                              ELSE "LINEAR",
                                     angle |-> INITIAL_ANGLE,
                                     visualAngle |-> INITIAL_ANGLE,
                                     dragOrigin |-> NullAngle,
                                     navConsumed |-> FALSE]]]))

ApplyAlgorithm(rawAlgorithm) ==
    LET Applied(a) == algo' = a /\ Commit(applyAlgorithm(a, W))
    IN  /\ Applied(setRuntimeAlgorithm(normalizeAlgorithm(rawAlgorithm)))
        /\ ev' = Ev("other", NoCall)
        /\ UNCHANGED <<isDraggingKnob, isDraggingDecision, draggedElement, dragStartY,
                       drag, docListeners>>

\* wheel/knob.ts startKnobDrag: mousedown / touchstart on the knob
knobDragStarted(a, g, angle) ==
    [g EXCEPT !.isDraggingKnob = TRUE,
              !.state.wheel.dragOrigin = clampAngleToArc(angle, getCurrentWheelArc(a)),
              !.state.wheel.navConsumed = FALSE]

startKnobDrag(angle) ==
    /\ isDraggingKnob' = TRUE
    /\ state' = knobDragStarted(algo, G, angle).state
    /\ ev' = Ev("other", NoCall)
    /\ UNCHANGED <<algo, liveIntervals, isDraggingDecision, draggedElement, dragStartY,
                   drag, docListeners>>

\* wheel/knob.ts handleDecisionWheelDrag
handleDecisionWheelDrag(a, w, delta) ==
    LET s == w.state
        Consumed(w1) == [w1 EXCEPT !.state.wheel.navConsumed =
                                       IF w1.ret THEN TRUE ELSE w1.state.wheel.navConsumed]
    IN  IF ~HasCard(a, s.currentId) \/ DECK(a)[s.currentId].transitions.type # "split"
        THEN [w |-> w, fn |-> "none", confirmed |-> FALSE]
        ELSE IF isReverseGesture(delta, getCurrentWheelArc(a))
        THEN [w |-> Consumed(rewind(a, w)), fn |-> "rewind", confirmed |-> FALSE]
        ELSE IF s.decisionTapped /\ isForwardGesture(delta, getCurrentWheelArc(a))
        THEN [w |-> Consumed(advance(a, w, "wheel-drag", TRUE)),
              fn |-> "advance", confirmed |-> TRUE]
        ELSE [w |-> w, fn |-> "none", confirmed |-> FALSE]

\* knobDragStep without the navConsumed guard of wheel/knob.ts onKnobDrag
knobDragStepUnconsumed(a, w, angle) ==
    LET Follow(w0, currentAngle) ==
            [w |-> [w0 EXCEPT !.state.wheel.visualAngle =
                       setKnobPosition(w.state.wheel.visualAngle, currentAngle)],
             fn |-> "none", confirmed |-> FALSE]
        Forward(w0) ==
            [w |-> [advance(a, w0, "wheel-drag", FALSE)
                       EXCEPT !.state.wheel.navConsumed = TRUE],
             fn |-> "advance", confirmed |-> FALSE]
        Reverse(w0) ==
            [w |-> [rewind(a, w0) EXCEPT !.state.wheel.navConsumed = TRUE],
             fn |-> "rewind", confirmed |-> FALSE]
        Gesture(w0, arc, currentAngle, delta) ==
            IF w.state.wheel.mode = "COVER"
            THEN (IF isForwardGesture(delta, arc) THEN Forward(w0)
                  ELSE Follow(w0, currentAngle))
            ELSE IF w.state.wheel.mode = "TERMINAL"
            THEN (IF isReverseGesture(delta, arc) THEN Reverse(w0)
                  ELSE Follow(w0, currentAngle))
            ELSE IF w.state.wheel.mode = "DECISION" THEN handleDecisionWheelDrag(a, w0, delta)
            ELSE IF isForwardGesture(delta, arc) THEN Forward(w0)
            ELSE IF isReverseGesture(delta, arc) THEN Reverse(w0)
            ELSE Follow(w0, currentAngle)
        From(arc, currentAngle, origin) ==
            Gesture([w EXCEPT !.state.wheel.dragOrigin = origin], arc, currentAngle,
                    angleDelta(origin, currentAngle))
        At(arc, currentAngle) ==
            From(arc, currentAngle,
                 IF w.state.wheel.dragOrigin = NullAngle THEN currentAngle
                 ELSE w.state.wheel.dragOrigin)
        In(arc) == At(arc, clampAngleToArc(angle, arc))
    IN  In(getCurrentWheelArc(a))

\* wheel/knob.ts onKnobDrag past its first three guards, as [w, fn, confirmed]
knobDragStep(a, w, angle) ==
    LET Follow(w0, currentAngle) ==
            [w |-> [w0 EXCEPT !.state.wheel.visualAngle =
                       setKnobPosition(w.state.wheel.visualAngle, currentAngle)],
             fn |-> "none", confirmed |-> FALSE]
        Forward(w0) ==
            [w |-> [advance(a, w0, "wheel-drag", FALSE)
                       EXCEPT !.state.wheel.navConsumed = TRUE],
             fn |-> "advance", confirmed |-> FALSE]
        Reverse(w0) ==
            [w |-> [rewind(a, w0) EXCEPT !.state.wheel.navConsumed = TRUE],
             fn |-> "rewind", confirmed |-> FALSE]
        Gesture(w0, arc, currentAngle, delta) ==
            IF w.state.wheel.navConsumed THEN [w |-> w0, fn |-> "none", confirmed |-> FALSE]
            ELSE IF w.state.wheel.mode = "COVER"
            THEN (IF isForwardGesture(delta, arc) THEN Forward(w0)
                  ELSE Follow(w0, currentAngle))
            ELSE IF w.state.wheel.mode = "TERMINAL"
            THEN (IF isReverseGesture(delta, arc) THEN Reverse(w0)
                  ELSE Follow(w0, currentAngle))
            ELSE IF w.state.wheel.mode = "DECISION" THEN handleDecisionWheelDrag(a, w0, delta)
            ELSE IF isForwardGesture(delta, arc) THEN Forward(w0)
            ELSE IF isReverseGesture(delta, arc) THEN Reverse(w0)
            ELSE Follow(w0, currentAngle)
        From(arc, currentAngle, origin) ==
            Gesture([w EXCEPT !.state.wheel.dragOrigin = origin], arc, currentAngle,
                    angleDelta(origin, currentAngle))
        At(arc, currentAngle) ==
            From(arc, currentAngle,
                 IF w.state.wheel.dragOrigin = NullAngle THEN currentAngle
                 ELSE w.state.wheel.dragOrigin)
        In(arc) == At(arc, clampAngleToArc(angle, arc))
    IN  In(getCurrentWheelArc(a))

\* wheel/knob.ts onKnobDrag: mousemove / touchmove on the document
onKnobDrag(angle) ==
    LET Done(r) == /\ Commit(r.w)
                   /\ ev' = Ev("other", Call(r.fn, r.confirmed, r.w.ret))
    IN  /\ isDraggingKnob
        /\ HasCard(algo, state.currentId)
        /\ Done(knobDragStep(algo, W, angle))
        /\ UNCHANGED <<algo, isDraggingKnob, isDraggingDecision, draggedElement,
                       dragStartY, drag, docListeners>>

\* Faulty variant of endKnobDrag: the knob is left where the pointer let go of it
endKnobDragNoSnap(a, g) ==
    IF ~g.isDraggingKnob THEN g
    ELSE [g EXCEPT !.isDraggingKnob = FALSE,
                   !.state.wheel.dragOrigin = NullAngle,
                   !.state.wheel.navConsumed = FALSE]

\* wheel/knob.ts endKnobDrag
endKnobDrag(a, g) ==
    LET Snap(angle) ==
            [g EXCEPT !.isDraggingKnob = FALSE,
                      !.state.wheel.dragOrigin = NullAngle,
                      !.state.wheel.navConsumed = FALSE,
                      !.state.wheel.angle = angle,
                      !.state.wheel.visualAngle =
                          setKnobPosition(g.state.wheel.visualAngle, angle)]
    IN  IF ~g.isDraggingKnob THEN g ELSE Snap(currentAnchorAngle(a, g.state))

\* Faulty variant of aboveZoneThreshold: a release exactly at the threshold commits
aboveZoneThresholdInclusive(dy, height) == 100 * dy >= ZONE_THRESHOLD_PCT * height

\* dy > zoneHeight * ZONE_THRESHOLD_RATIO, the ratio held in hundredths
aboveZoneThreshold(dy, height) == 100 * dy > ZONE_THRESHOLD_PCT * height

\* navigation/zone-drag.ts onPointerUp
onPointerUp(a, g, y) ==
    LET dy == y - g.drag.startY
        fn == IF g.drag.direction = "advance" /\ aboveZoneThreshold(dy, g.drag.zoneHeight)
              THEN "advance"
              ELSE IF g.drag.direction = "rewind"
                      /\ aboveZoneThreshold(-dy, g.drag.zoneHeight)
              THEN "rewind"
              ELSE "none"
        Navigate(g0) == IF fn = "advance" THEN advance(a, g0, "zone-drag", FALSE)
                        ELSE IF fn = "rewind" THEN rewind(a, g0)
                        ELSE g0
        Released(g1) ==
            [g1 EXCEPT !.call = IF fn = "none" THEN g.call ELSE Call(fn, FALSE, g1.ret),
                       !.drag = [g.drag EXCEPT !.active = FALSE, !.element = FALSE,
                                               !.direction = ""]]
    IN  IF ~g.drag.active THEN g
        ELSE Released(Navigate([g EXCEPT !.docListeners =
                                   RemoveListener(g.docListeners, "onPointerUp")]))

\* Faulty variant of decisionDragConfirms: the selection is not looked at
decisionDragConfirmsUntapped(dy, decisionTapped) == dy > DECISION_CONFIRM_PX

\* line 76 of endDecisionDrag: the release confirms the selected option
decisionDragConfirms(dy, decisionTapped) == dy > DECISION_CONFIRM_PX /\ decisionTapped

\* cards/decision-cards.ts endDecisionDrag
endDecisionDrag(a, g, y) ==
    LET confirm == decisionDragConfirms(y - g.dragStartY, g.state.decisionTapped)
        Confirm(g0) == IF confirm THEN advance(a, g0, "decision-confirm", TRUE) ELSE g0
        Released(g1) ==
            [g1 EXCEPT !.call = IF confirm THEN Call("advance", TRUE, g1.ret) ELSE g.call,
                       !.isDraggingDecision = FALSE,
                       !.draggedElement = FALSE]
    IN  IF ~g.isDraggingDecision THEN g
        ELSE Released(Confirm([g EXCEPT !.docListeners =
                                  RemoveListener(g.docListeners, "endDecisionDrag")]))

\* One mouseup / touchend on the document runs its listeners one after another
RECURSIVE dispatchPointerUp(_, _, _, _)
dispatchPointerUp(a, g, listeners, y) ==
    IF listeners = <<>> THEN g
    ELSE dispatchPointerUp(a,
             IF Head(listeners) = "endKnobDrag" THEN endKnobDrag(a, g)
             ELSE IF Head(listeners) = "onPointerUp" THEN onPointerUp(a, g, y)
             ELSE endDecisionDrag(a, g, y),
             Tail(listeners), y)

\* mouseup / touchend reaches the document: endKnobDrag (added by setupKnobListeners)
\* runs first, then the listeners the drag starts added, in the order they were added
PointerUp(y) ==
    LET Done(g) == CommitGesture(g) /\ ev' = Ev("up", g.call)
    IN  /\ isDraggingKnob \/ docListeners # <<>>
        /\ Done(dispatchPointerUp(algo, G, <<"endKnobDrag">> \o docListeners, y))
        /\ UNCHANGED algo

\* touchcancel reaches the document: no listener is registered for it anywhere
PointerCancel ==
    /\ isDraggingKnob \/ docListeners # <<>>
    /\ ev' = Ev("cancel", NoCall)
    /\ UNCHANGED <<algo, state, liveIntervals, isDraggingKnob, isDraggingDecision,
                   draggedElement, dragStartY, drag, docListeners>>

\* navigation/zone-drag.ts onPointerDown, reached from the delegated mousedown /
\* touchstart listeners of attachZoneDragListeners
onPointerDown(direction, y, height) ==
    /\ IF direction = "advance" THEN previewCardRendered(algo, state)
       ELSE historyCardRendered(algo, state)
    /\ drag' = [active |-> TRUE, element |-> TRUE, startY |-> y,
                direction |-> direction, zoneHeight |-> height]
    /\ docListeners' = AddListener("onPointerUp")
    /\ ev' = Ev("other", NoCall)
    /\ UNCHANGED <<algo, state, liveIntervals, isDraggingKnob, isDraggingDecision,
                   draggedElement, dragStartY>>

\* cards/decision-cards.ts startDecisionDrag: mousedown / touchstart on the
\* selected option card
startDecisionDrag(y) ==
    /\ selectedOptionRendered(algo, state)
    /\ HasCard(algo, state.currentId) /\ DECK(algo)[state.currentId].type = "decision"
    /\ isDraggingDecision' = TRUE
    /\ draggedElement' = TRUE
    /\ dragStartY' = y
    /\ docListeners' = AddListener("endDecisionDrag")
    /\ ev' = Ev("other", NoCall)
    /\ UNCHANGED <<algo, state, liveIntervals, isDraggingKnob, drag>>

\* Faulty variant of selectOption: the requested index is stored as given
selectOptionUnclamped(a, s, idx) ==
    render(a, [s EXCEPT !.decisionIndex = idx, !.decisionTapped = TRUE])

\* Faulty variant of selectOption: the selection restarts the clock
selectOptionTimerReset(a, s, idx) ==
    render(a, [s EXCEPT !.decisionIndex = normalizeDecisionIndexForCard(a, s.currentId, idx),
                        !.decisionTapped = TRUE,
                        !.timerSeconds = 0,
                        !.timerRunning = FALSE])

\* cards/preview-zone.ts selectDecisionOption, as the new `state`
selectOption(a, s, idx) ==
    render(a, [s EXCEPT !.decisionIndex = normalizeDecisionIndexForCard(a, s.currentId, idx),
                        !.decisionTapped = TRUE])

\* click on option card idx of the decision-mode preview zone
selectDecisionOption(idx) ==
    /\ decisionModeRendered(algo, state)
    /\ idx + 1 \in DOMAIN DECK(algo)[state.currentId].transitions.options
    /\ Commit([W EXCEPT !.state = selectOption(algo, state, idx)])
    /\ ev' = Ev("other", NoCall)
    /\ UNCHANGED <<algo, isDraggingKnob, isDraggingDecision, draggedElement, dragStartY,
                   drag, docListeners>>

\* main.ts init: the click listeners of the wheel and of the knob
tapAdvance(source) ==
    LET Done(w1) == Commit(w1) /\ ev' = Ev("other", Call("advance", FALSE, w1.ret))
    IN  /\ IF canTapAdvance(algo, state.currentId)
           THEN Done(advance(algo, W, source, FALSE))
           ELSE /\ UNCHANGED <<state, liveIntervals>>
                /\ ev' = Ev("other", NoCall)
        /\ UNCHANGED <<algo, isDraggingKnob, isDraggingDecision, draggedElement,
                       dragStartY, drag, docListeners>>

WheelTap == tapAdvance("wheel-tap")

KnobTap == tapAdvance("knob-tap")

\* main.ts init: the carousel click listener of the active card
carouselClick(right) ==
    /\ HasCard(algo, state.currentId)
    /\ DECK(algo)[state.currentId].type = "carousel_action"
    /\ DECK(algo)[state.currentId].slides > 1
    /\ LET n == DECK(algo)[state.currentId].slides
       IN  Commit([W EXCEPT !.state = render(algo,
              [state EXCEPT !.carouselIndex =
                  IF right THEN JsRem(state.carouselIndex + 1, n)
                  ELSE JsRem(state.carouselIndex - 1 + n, n)])])
    /\ ev' = Ev("other", NoCall)
    /\ UNCHANGED <<algo, isDraggingKnob, isDraggingDecision, draggedElement, dragStartY,
                   drag, docListeners>>

\* cards/checklist.ts handleCheckChange: a checkbox of the current card changes
handleCheckChange(id, checked) ==
    /\ HasCard(algo, state.currentId)
    /\ id \in Range(DECK(algo)[state.currentId].checklist)
    /\ state' = [state EXCEPT !.checklistState = MapSet(state.checklistState, id, checked)]
    /\ ev' = Ev("other", NoCall)
    /\ UNCHANGED <<algo, liveIntervals, isDraggingKnob, isDraggingDecision, draggedElement,
                   dragStartY, drag, docListeners>>

\* ui/timer.ts: the callback of an installed interval
timerTick ==
    /\ liveIntervals > 0
    /\ state.timerSeconds < MaxTimer
    /\ state' = [state EXCEPT !.timerSeconds = state.timerSeconds + 1]
    /\ ev' = Ev("other", NoCall)
    /\ UNCHANGED <<algo, liveIntervals, isDraggingKnob, isDraggingDecision, draggedElement,
                   dragStartY, drag, docListeners>>

----------------------------------------------------------------------------
(* automation.ts: window.__WARDEN_AUTOMATION *)

GotoIds == AllCardIds \cup {"NOPE", "constructor"}

\* snapshotForAutomation: the navigation fields of the dump (algorithmSource and
\* the active card's summary are left out)
snapshotForAutomation(s) ==
    [currentId |-> s.currentId,
     history |-> s.history,
     historySize |-> Len(s.history),
     decisionIndex |-> s.decisionIndex,
     decisionRecords |-> s.decisionRecords,
     decisionTrail |-> SubSeq(s.decisionTrail, Max(1, Len(s.decisionTrail) - 29),
                              Len(s.decisionTrail)),
     carouselIndex |-> s.carouselIndex,
     timerSeconds |-> s.timerSeconds,
     anchors |-> s.anchors,
     anchorIndex |-> s.anchorIndex,
     decisionTapped |-> s.decisionTapped,
     wheel |-> [mode |-> s.wheel.mode, angle |-> s.wheel.angle]]

\* {ok, error, snapshot} returned by a mutating automation call, with the world
\* the call leaves; error "" stands for null
AutomationResult(w, ok, error) ==
    [state |-> w.state, live |-> w.live, ret |-> ok, ok |-> ok, error |-> error,
     snapshot |-> snapshotForAutomation(w.state)]

\* Faulty variant of setCurrentCardForAutomation: the jump also forgets the decisions
setCurrentCardForgetsRecords(a, w, cardId) ==
    LET s == w.state
        Rendered(w1) == [w1 EXCEPT !.state = render(a, w1.state)]
        Jump(id) ==
            Rendered(resetTimerState([w EXCEPT !.state =
                [s EXCEPT !.currentId = id,
                          !.history = <<>>,
                          !.decisionRecords = EmptyMap,
                          !.decisionIndex = IF isSplitDecisionCard(a, id)
                                            THEN rememberedDecisionIndexForCard(a, s, id)
                                            ELSE 0,
                          !.decisionTapped = FALSE,
                          !.carouselIndex = 0,
                          !.wheel.mode = computeWheelMode(a, id),
                          !.wheel.dragOrigin = NullAngle,
                          !.wheel.navConsumed = FALSE]]))
    IN  IF HasCard(a, cardId) THEN AutomationResult(Jump(cardId), TRUE, "")
        ELSE IF cardId \in ObjectPrototypeKeys THEN AutomationResult(Jump(NoId), TRUE, "")
        ELSE AutomationResult(w, FALSE, "Unknown card id")

\* setCurrentCardForAutomation: `card` is DECK[cardId], a card of the deck or a
\* member inherited from Object.prototype, whose id is undefined (NoId here)
setCurrentCardForAutomation(a, w, cardId) ==
    LET s == w.state
        Rendered(w1) == [w1 EXCEPT !.state = render(a, w1.state)]
        Jump(id) ==
            Rendered(resetTimerState([w EXCEPT !.state =
                [s EXCEPT !.currentId = id,
                          !.history = <<>>,
                          !.decisionIndex = IF isSplitDecisionCard(a, id)
                                            THEN rememberedDecisionIndexForCard(a, s, id)
                                            ELSE 0,
                          !.decisionTapped = FALSE,
                          !.carouselIndex = 0,
                          !.wheel.mode = computeWheelMode(a, id),
                          !.wheel.dragOrigin = NullAngle,
                          !.wheel.navConsumed = FALSE]]))
    IN  IF HasCard(a, cardId) THEN AutomationResult(Jump(cardId), TRUE, "")
        ELSE IF cardId \in ObjectPrototypeKeys THEN AutomationResult(Jump(NoId), TRUE, "")
        ELSE AutomationResult(w, FALSE, "Unknown card id")

automationGoto(cardId) ==
    /\ Commit(setCurrentCardForAutomation(algo, W, cardId))
    /\ ev' = Ev("other", NoCall)
    /\ UNCHANGED <<algo, isDraggingKnob, isDraggingDecision, draggedElement, dragStartY,
                   drag, docListeners>>

gotoCard(cardId) == automationGoto(cardId)

reset ==
    automationGoto(IF currentAlgorithmStartId(algo) # NoId
                   THEN currentAlgorithmStartId(algo) ELSE state.currentId)

\* Faulty variant of automationSelectOption: the kind of the current card is not
\* looked at
automationSelectOptionUnguarded(a, w, index) ==
    AutomationResult([w EXCEPT !.state = selectOption(a, w.state, index)], TRUE, "")

\* selectDecisionOption of the automation object
automationSelectOption(a, w, index) ==
    IF ~HasCard(a, w.state.currentId)
       \/ DECK(a)[w.state.currentId].transitions.type # "split"
    THEN AutomationResult(w, FALSE, "Current card is not a split decision card")
    ELSE AutomationResult([w EXCEPT !.state = selectOption(a, w.state, index)], TRUE, "")

automationSelectDecisionOption(index) ==
    /\ Commit(automationSelectOption(algo, W, index))
    /\ ev' = Ev("other", NoCall)
    /\ UNCHANGED <<algo, isDraggingKnob, isDraggingDecision, draggedElement, dragStartY,
                   drag, docListeners>>

\* Faulty variant of automationAdvanceCall: the call is made like a bare UI
\* advance, unconfirmed
automationAdvanceUnconfirmed(a, w) ==
    LET Done(w1) ==
            [state |-> w1.state, live |-> w1.live, ret |-> w1.ret,
             ok |-> TRUE, error |-> "", moved |-> w1.ret,
             before_id |-> w.state.currentId, after_id |-> w1.state.currentId,
             snapshot |-> snapshotForAutomation(w1.state)]
    IN  Done(advance(a, w, "ui", FALSE))

\* advance() of the automation object: the world it leaves and what it returns
automationAdvanceCall(a, w) ==
    LET Done(w1) ==
            [state |-> w1.state, live |-> w1.live, ret |-> w1.ret,
             ok |-> TRUE, error |-> "", moved |-> w1.ret,
             before_id |-> w.state.currentId, after_id |-> w1.state.currentId,
             snapshot |-> snapshotForAutomation(w1.state)]
    IN  Done(advance(a, w, "automation", TRUE))

automationAdvance ==
    LET Done(w1) == Commit(w1) /\ ev' = Ev("other", Call("advance", TRUE, w1.ret))
    IN  /\ Done(automationAdvanceCall(algo, W))
        /\ UNCHANGED <<algo, isDraggingKnob, isDraggingDecision, draggedElement,
                       dragStartY, drag, docListeners>>

automationBack ==
    LET Done(w1) == Commit(w1) /\ ev' = Ev("other", Call("rewind", FALSE, w1.ret))
    IN  /\ Done(rewind(algo, W))
        /\ UNCHANGED <<algo, isDraggingKnob, isDraggingDecision, draggedElement,
                       dragStartY, drag, docListeners>>

----------------------------------------------------------------------------

\* The automation API and the non-drag listeners: every navigation operation
Next ==
    \/ \E rawAlgorithm \in RawAlgorithms : ApplyAlgorithm(rawAlgorithm)
    \/ \E idx \in 0..3 : selectDecisionOption(idx)
    \/ WheelTap
    \/ KnobTap
    \/ \E right \in BOOLEAN : carouselClick(right)
    \/ \E id \in {"chk_safe"}, checked \in BOOLEAN : handleCheckChange(id, checked)
    \/ timerTick
    \/ \E id \in GotoIds : gotoCard(id)
    \/ reset
    \/ \E index \in RequestedIndices : automationSelectDecisionOption(index)
    \/ automationAdvance
    \/ automationBack

Spec == Init /\ [][Next]_vars

\* The pointer and click events of the page: every interleaving of UI input
NextGesture ==
    \/ \E rawAlgorithm \in RawAlgorithms : ApplyAlgorithm(rawAlgorithm)
    \/ \E angle \in PointerAngles : startKnobDrag(angle)
    \/ \E angle \in PointerAngles : onKnobDrag(angle)
    \/ \E y \in ClientYs : PointerUp(y)
    \/ PointerCancel
    \/ \E d \in {"advance", "rewind"}, y \in ZoneStartYs, h \in ZoneHeights :
          onPointerDown(d, y, h)
    \/ \E y \in DecisionStartYs : startDecisionDrag(y)
    \/ \E idx \in 0..3 : selectDecisionOption(idx)
    \/ WheelTap
    \/ KnobTap

SpecGesture == Init /\ [][NextGesture]_vars

\* wheel/physics.ts setKnobPosition called with a target angle of [0, 360)
setKnobPositionCall(deg) ==
    /\ state' = [state EXCEPT !.wheel.visualAngle =
                                  setKnobPosition(state.wheel.visualAngle, deg)]
    /\ Abs(state'.wheel.visualAngle) <= MaxVisual
    /\ ev' = Ev("other", NoCall)
    /\ UNCHANGED <<algo, liveIntervals, isDraggingKnob, isDraggingDecision, draggedElement,
                   dragStartY, drag, docListeners>>

NextKnob == \E deg \in KnobTargets : setKnobPositionCall(deg)

SpecKnob == Init /\ [][NextKnob]_vars

----------------------------------------------------------------------------
(* Properties *)

Last(seq) == seq[Len(seq)]

Front(seq) == SubSeq(seq, 1, Len(seq) - 1)

CurrentCard == DECK(algo)[state.currentId]

\* the navigation fields and the timer are those of the current state
NavigationUnchanged(r) ==
    /\ r.state.currentId = state.currentId
    /\ r.state.history = state.history
    /\ r.state.decisionIndex = state.decisionIndex
    /\ r.state.decisionTapped = state.decisionTapped
    /\ r.state.decisionRecords = state.decisionRecords
    /\ r.state.decisionTrail = state.decisionTrail
    /\ r.state.timerRunning = state.timerRunning
    /\ r.state.timerSeconds = state.timerSeconds
    /\ r.state.timerInterval = state.timerInterval
    /\ r.live = liveIntervals

\* C1: whenever the current card is a split-decision card, advance called without
\* splitConfirmed and with any source other than automation returns false and
\* leaves currentId, history, decisionIndex, decisionRecords and decisionTrail
\* as they were.
C1_DecisionGuard ==
    isSplitDecisionCard(algo, state.currentId) =>
        \A source \in UiSources :
            LET r == advance(algo, W, source, FALSE)
            IN  /\ r.ret = FALSE
                /\ r.state.currentId = state.currentId
                /\ r.state.history = state.history
                /\ r.state.decisionIndex = state.decisionIndex
                /\ r.state.decisionRecords = state.decisionRecords
                /\ r.state.decisionTrail = state.decisionTrail

\* a handler has just called advance, unconfirmed, on a split-decision card that
\* is not complete, and the call returned false
C1_Witness ==
    /\ isSplitDecisionCard(algo, state.currentId)
    /\ CurrentCard.status # "complete"
    /\ ev.call = Call("advance", FALSE, FALSE)

\* the step appends an entry to decisionTrail: advance took its split branch
SplitCommitted == Len(state'.decisionTrail) > Len(state.decisionTrail)

clampIndex(i, n) == Max(0, Min(n - 1, i))

\* Selecting option i and then confirming, from the current state: the selection
\* keeps currentId; the confirmation records clamp(i), appends one trail entry
\* for the card with that index and target, and moves to the target (whenever
\* movesAlways, else only when the target is a card of the deck: otherwise it
\* returns false and currentId stays).
SelectThenConfirm(movesAlways) ==
    (isSplitDecisionCard(algo, state.currentId) /\ CurrentCard.status # "complete") =>
        \A i \in RequestedIndices, source \in Sources :
            LET id == state.currentId
                options == CurrentCard.transitions.options
                k == clampIndex(i, Len(options))
                target == options[k + 1].target_id
                s1 == selectOption(algo, state, i)
                r == advance(algo, [W EXCEPT !.state = s1], source, TRUE)
            IN  /\ s1.currentId = id
                /\ s1.decisionRecords = state.decisionRecords
                /\ s1.decisionTrail = state.decisionTrail
                /\ r.state.decisionRecords = MapSet(state.decisionRecords, id, k)
                /\ Len(r.state.decisionTrail) = Len(state.decisionTrail) + 1
                /\ Front(r.state.decisionTrail) = state.decisionTrail
                /\ Last(r.state.decisionTrail).card_id = id
                /\ Last(r.state.decisionTrail).option_index = k
                /\ Last(r.state.decisionTrail).target_id = target
                /\ IF movesAlways \/ HasCard(algo, target)
                   THEN r.ret /\ r.state.currentId = target
                   ELSE ~r.ret /\ r.state.currentId = id

C4_FailureIsNoOp ==
    \A source \in Sources, confirmed \in BOOLEAN :
        LET r == advance(algo, W, source, confirmed)
        IN  ~r.ret => NavigationUnchanged(r)

\* C5: when the current card is missing from the deck, is complete, or has no
\* transitions, advance from any source, confirmed or not, returns false and
\* changes nothing; so a complete card stays current, with the same history,
\* through any sequence of advance calls.
C5_BlockedAdvance ==
    (\/ ~HasCard(algo, state.currentId)
     \/ CurrentCard.status = "complete"
     \/ CurrentCard.transitions.type = "none") =>
        \A source \in Sources, confirmed \in BOOLEAN :
            LET r == advance(algo, W, source, confirmed)
            IN  ~r.ret /\ r.state = state /\ r.live = liveIntervals

\* advance has just returned false on a complete card that still has a transition
C5_Witness ==
    /\ HasCard(algo, state.currentId)
    /\ CurrentCard.status = "complete"
    /\ CurrentCard.transitions.type = "linear"
    /\ ev.call = Call("advance", TRUE, FALSE)

\* k advances along a linear chain of distinct cards succeed from w
RECURSIVE linearChain(_, _, _)
linearChain(a, w, k) ==
    \/ k = 0
    \/ /\ HasCard(a, w.state.currentId)
       /\ DECK(a)[w.state.currentId].transitions.type = "linear"
       /\ LET w1 == advance(a, w, "ui", FALSE)
          IN  /\ w1.ret
              /\ w1.state.currentId # w.state.currentId
              /\ linearChain(a, w1, k - 1)

RECURSIVE advanceTimes(_, _, _)
advanceTimes(a, w, k) ==
    IF k = 0 THEN w ELSE advanceTimes(a, advance(a, w, "ui", FALSE), k - 1)

RECURSIVE rewindTimes(_, _, _)
rewindTimes(a, w, k) ==
    IF k = 0 THEN w ELSE rewindTimes(a, rewind(a, w), k - 1)

\* C6: from a state whose current card is not a split decision, an advance that
\* succeeds by moving to a different card, followed at once by rewind, restores
\* currentId, history, decisionIndex, decisionRecords and checklistState; and k
\* successful advances along a linear chain followed by k rewinds return to the
\* original currentId with the original history.
C6_AdvanceRewindInverse ==
    /\ ~isSplitDecisionCard(algo, state.currentId) =>
          \A source \in Sources, confirmed \in BOOLEAN :
              LET r1 == advance(algo, W, source, confirmed)
                  r2 == rewind(algo, r1)
              IN  (r1.ret /\ r1.state.currentId # state.currentId) =>
                      /\ r2.ret
                      /\ r2.state.currentId = state.currentId
                      /\ r2.state.history = state.history
                      /\ r2.state.decisionIndex = state.decisionIndex
                      /\ r2.state.decisionRecords = state.decisionRecords
                      /\ r2.state.checklistState = state.checklistState
    /\ \A k \in 1..MaxChain :
          linearChain(algo, W, k) =>
              LET r == rewindTimes(algo, advanceTimes(algo, W, k), k)
              IN  r.state.currentId = state.currentId /\ r.state.history = state.history

\* rewind has just undone the advances made: the start card of a linear chain
\* is current again with an empty history, and the timer the first advance
\* started is still running
C6_Witness ==
    /\ ev.call = Call("rewind", FALSE, TRUE)
    /\ state.currentId = currentAlgorithmStartId(algo)
    /\ ~isSplitDecisionCard(algo, state.currentId)
    /\ state.history = <<>>
    /\ state.timerRunning
    /\ linearChain(algo, W, MaxChain)

\* C7: rewind with an empty history returns false and changes nothing; otherwise
\* it pops the last entry into currentId; a restored split-decision card gets
\* decisionTapped true exactly when decisionRecords has an entry for it, and
\* then decisionIndex is that entry; a restored card that is no split decision
\* gets decisionIndex 0 and decisionTapped false.
C7_Rewind ==
    LET r == rewind(algo, W)
        prevId == Last(state.history)
    IN  IF state.history = <<>>
        THEN ~r.ret /\ r.state = state /\ r.live = liveIntervals
        ELSE /\ r.ret
             /\ r.state.currentId = prevId
             /\ r.state.history = Front(state.history)
             /\ IF isSplitDecisionCard(algo, prevId)
                THEN /\ r.state.decisionTapped <=> prevId \in DOMAIN state.decisionRecords
                     /\ prevId \in DOMAIN state.decisionRecords =>
                            r.state.decisionIndex = state.decisionRecords[prevId]
                ELSE r.state.decisionIndex = 0 /\ ~r.state.decisionTapped

\* rewind has just restored a decision card whose second option was committed
C7_Witness ==
    /\ ev.call = Call("rewind", FALSE, TRUE)
    /\ isSplitDecisionCard(algo, state.currentId)
    /\ state.currentId \in DOMAIN state.decisionRecords
    /\ state.decisionRecords[state.currentId] = 1
    /\ state.decisionIndex = 1
    /\ state.decisionTapped

\* C8 as stated: at most one of the knob drag, the decision-option drag and the
\* zone drag is active.
C8_SingleGestureOwner ==
    /\ ~(isDraggingKnob /\ isDraggingDecision)
    /\ ~(isDraggingKnob /\ drag.active)
    /\ ~(isDraggingDecision /\ drag.active)

\* no drag state is left: the three drags are inactive and hold nothing
GesturesCleared ==
    /\ ~drag.active /\ ~drag.element /\ drag.direction = ""
    /\ ~isDraggingDecision /\ ~draggedElement
    /\ ~isDraggingKnob
    /\ state.wheel.dragOrigin = NullAngle
    /\ ~state.wheel.navConsumed

\* C9 as stated: after a pointer-up or a pointer-cancel event every gesture is
\* fully cleared.
C9_ClearedAfterUpOrCancel == ev.event \in {"up", "cancel"} => GesturesCleared

\* C10: setKnobPosition with any target of [0, 360) changes visualAngle by at
\* most 180 degrees either way, and leaves it congruent to the target modulo 360.
C10_AngleContinuity ==
    \A deg \in 0..(FULL_TURN - 1) :
        LET newVisual == setKnobPosition(state.wheel.visualAngle, deg)
        IN  /\ Abs(newVisual - state.wheel.visualAngle) <= HALF_TURN
            /\ (newVisual - deg) % FULL_TURN = 0

\* visualAngle has accumulated past a full turn, in either direction
C10_Witness ==
    \/ state.wheel.visualAngle > FULL_TURN + HALF_TURN
    \/ state.wheel.visualAngle < -HALF_TURN

----------------------------------------------------------------------------
(* Anchors *)

\* the ids of the anchor list, in order
anchorIds(anchors) == [i \in DOMAIN anchors |-> anchors[i].id]

\* no id occurs twice in the sequence
distinctIds(seq) == \A i, j \in DOMAIN seq : seq[i] = seq[j] => i = j

\* C11 as stated: in every reachable state the anchor list has as many entries
\* as computeForwardPath returns, its ids are pairwise distinct, and they are the
\* forward path in order, starting with the start card deck[0].
C11_AnchorsMatchForwardPath ==
    LET path == computeForwardPath(algo, state.decisionRecords)
    IN  /\ Len(state.anchors) = Len(path)
        /\ distinctIds(anchorIds(state.anchors))
        /\ anchorIds(state.anchors) = path
        /\ path # <<>> => path[1] = currentAlgorithmStartId(algo)

----------------------------------------------------------------------------
(* Decks with branches of known lengths, and the operations that reach every
   combination of recorded and unrecorded splits on them *)

\* a standard card with a linear transition
Step(id, next) == RawCard(id, "standard", "", "", Linear(next), 0, <<>>)

\* a terminal card
End(id) == RawCard(id, "terminal", "complete", "", NoTransitions, 0, <<>>)

\* a split whose branches are 2 and 5 cards long
AlgoBranch(options) ==
    [algorithm_meta |-> [wheel_arc |-> NoArc, auto_start_on_card |-> NoId],
     deck |-> <<
        Step("ROOT", "S"),
        RawCard("S", "decision", "", "", Split(options), 0, <<>>),
        Step("P1", "P2"), End("P2"),
        Step("Q1", "Q2"), Step("Q2", "Q3"), Step("Q3", "Q4"), Step("Q4", "Q5"), End("Q5")
     >>]

\* a split S whose first branch holds a nested split N: through option 0 of N the
\* branch is 2 cards long, through option 1 of N it is 4, the other branch of S is 3
AlgoNested ==
    [algorithm_meta |-> [wheel_arc |-> NoArc, auto_start_on_card |-> NoId],
     deck |-> <<
        RawCard("S", "decision", "", "", Split(<<Opt("IN", "N"), Opt("OUT", "R1")>>),
                0, <<>>),
        RawCard("N", "decision", "", "", Split(<<Opt("STOP", "T0"), Opt("ON", "U1")>>),
                0, <<>>),
        End("T0"),
        Step("U1", "U2"), Step("U2", "U3"), End("U3"),
        Step("R1", "R2"), Step("R2", "R3"), End("R3")
     >>]

BranchAlgorithms ==
    {AlgoBranch(<<Opt("SHORT", "P1"), Opt("LONG", "Q1")>>),
     AlgoBranch(<<Opt("LONG", "Q1"), Opt("SHORT", "P1")>>),
     AlgoNested}

BranchCardIds == UNION {{raw.deck[i].id : i \in DOMAIN raw.deck} : raw \in BranchAlgorithms}

NextBranch ==
    \/ \E rawAlgorithm \in BranchAlgorithms : ApplyAlgorithm(rawAlgorithm)
    \/ \E id \in BranchCardIds : gotoCard(id)
    \/ \E index \in {0, 1} : automationSelectDecisionOption(index)
    \/ automationAdvance
    \/ automationBack

SpecBranch == Init /\ [][NextBranch]_vars

\* The length of the branch that starts at cardId, walked with the rules of the
\* forward path: a recorded split follows its record, one without record takes
\* option 0
RECURSIVE branchLength(_, _, _, _)
branchLength(a, records, cardId, visited) ==
    IF cardId = NoId \/ ~HasCard(a, cardId) \/ cardId \in visited THEN 0
    ELSE LET t == DECK(a)[cardId].transitions
             seen == visited \cup {cardId}
             k == IF cardId \in DOMAIN records THEN records[cardId] + 1 ELSE 1
         IN  IF t.type = "linear" THEN 1 + branchLength(a, records, t.next_id, seen)
             ELSE IF t.type = "split"
             THEN 1 + branchLength(a, records,
                          IF k \in DOMAIN t.options THEN t.options[k].target_id ELSE NoId,
                          seen)
             ELSE IF t.type = "self_loop" /\ t.next_id # cardId
             THEN 1 + branchLength(a, records, t.next_id, seen)
             ELSE 1

\* the options of the split card whose target is a card not yet visited
openOptions(a, cardId, visited) ==
    {k \in DOMAIN DECK(a)[cardId].transitions.options :
        LET target == DECK(a)[cardId].transitions.options[k].target_id
        IN  target # NoId /\ HasCard(a, target) /\ target \notin visited}

\* The id the walk continues with after the split card cardId, as claimed: the
\* recorded option, else the lowest option whose branch is longest under Length,
\* else option 0
selectedTarget(a, records, cardId, visited, Length(_, _, _, _)) ==
    LET options == DECK(a)[cardId].transitions.options
        open == openOptions(a, cardId, visited)
        longest == CHOOSE k \in open :
                      \A j \in open :
                          \/ Length(a, records, options[k].target_id, visited)
                                > Length(a, records, options[j].target_id, visited)
                          \/ /\ Length(a, records, options[k].target_id, visited)
                                = Length(a, records, options[j].target_id, visited)
                             /\ k <= j
    IN  IF cardId \in DOMAIN records
        THEN (IF records[cardId] + 1 \in DOMAIN options
              THEN options[records[cardId] + 1].target_id ELSE NoId)
        ELSE IF open # {} THEN options[longest].target_id
        ELSE options[1].target_id

\* every split card of the forward path is followed by the target selected under
\* Length, and the path ends there when that target is missing or already visited
followsSelection(a, records, Length(_, _, _, _)) ==
    LET path == computeForwardPath(a, records)
    IN  \A i \in DOMAIN path :
            DECK(a)[path[i]].transitions.type = "split" =>
                LET visited == {path[j] : j \in 1..i}
                    target == selectedTarget(a, records, path[i], visited, Length)
                IN  IF target # NoId /\ HasCard(a, target) /\ target \notin visited
                    THEN i < Len(path) /\ path[i + 1] = target
                    ELSE i = Len(path)

\* countPathLength with the parameters of branchLength
codeLength(a, records, cardId, visited) == countPathLength(a, cardId, visited)

\* C12 as stated: a recorded split of the forward path is followed by its
\* recorded option, a split without record by the lowest-index option whose
\* remaining branch is longest - the branch walked over cards not yet visited,
\* with nested splits that have no record taken as option 0 - and by option 0
\* when no option has an existing unvisited target.
C12_LongestBranch == followsSelection(algo, state.decisionRecords, branchLength)

\* The selection with the branch lengths as countPathLength counts them: every
\* nested split taken as option 0, recorded or not
LongestByCountPathLength == followsSelection(algo, state.decisionRecords, codeLength)

\* with two unrecorded branches of lengths 2 and 5, the path holds the 5 cards
FiveCardBranchTaken ==
    (HasCard(algo, "Q5") /\ "S" \notin DOMAIN state.decisionRecords) =>
        /\ branchLength(algo, state.decisionRecords, "P1", {"ROOT", "S"}) = 2
        /\ branchLength(algo, state.decisionRecords, "Q1", {"ROOT", "S"}) = 5
        /\ computeForwardPath(algo, state.decisionRecords)
              = <<"ROOT", "S", "Q1", "Q2", "Q3", "Q4", "Q5">>

----------------------------------------------------------------------------
(* Decision index *)

\* the indices asked for: negative, in range, and beyond every option list
ClampRequests == -3..5

\* DECK holding one card whose split has an empty option list (a card the loader
\* never produces)
EmptySplitDeck ==
    setRuntimeAlgorithm(
        [algorithm_meta |-> [wheel_arc |-> NoArc, auto_start_on_card |-> NoId],
         deck |-> <<RawCard("EMPTY", "decision", "", "", Split(<<>>), 0, <<>>)>>])

\* C13: for every card id (of the deck or not) and every integer i,
\* normalizeDecisionIndexForCard lies in [0, n-1] on a card with a split of n >= 1
\* options and is i itself when i is in that range; it is 0 on a card without
\* split, on a missing card and on an empty option list.
C13_ClampInvariant ==
    /\ \A id \in AllCardIds \cup BranchCardIds \cup {"NOPE"}, i \in ClampRequests :
          LET r == normalizeDecisionIndexForCard(algo, id, i)
              n == Len(DECK(algo)[id].transitions.options)
          IN  IF HasCard(algo, id) /\ DECK(algo)[id].transitions.type = "split" /\ n > 0
              THEN /\ r \in 0..(n - 1)
                   /\ i \in 0..(n - 1) => r = i
              ELSE r = 0
    /\ \A i \in ClampRequests : normalizeDecisionIndexForCard(EmptySplitDeck, "EMPTY", i) = 0

\* a selection has put a clamped index on a split card: requests below and beyond
\* the options clamp to the first and to the last option, which is selected
C13_Witness ==
    /\ isSplitDecisionCard(algo, state.currentId)
    /\ state.decisionTapped
    /\ state.decisionIndex = Len(CurrentCard.transitions.options) - 1
    /\ state.decisionIndex = normalizeDecisionIndexForCard(algo, state.currentId, 3)
    /\ normalizeDecisionIndexForCard(algo, state.currentId, -1) = 0

----------------------------------------------------------------------------
(* Timer *)

\* the timer of the state s has not gone back from the current state
TimerKept(s) ==
    /\ s.timerSeconds >= state.timerSeconds
    /\ state.timerRunning => s.timerRunning

\* C14: in every reachable state, no advance (any source, confirmed or not), no
\* rewind and no option selection, successful or not, decreases timerSeconds or
\* turns timerRunning from true to false; so no sequence of them does between
\* two algorithm loads.
C14_TimerNeverResets ==
    /\ \A source \in Sources, confirmed \in BOOLEAN :
          TimerKept(advance(algo, W, source, confirmed).state)
    /\ TimerKept(rewind(algo, W).state)
    /\ \A i \in RequestedIndices : TimerKept(selectOption(algo, state, i))

\* rewind has just succeeded while the timer is running with elapsed seconds
C14_Witness ==
    /\ ev.call = Call("rewind", FALSE, TRUE)
    /\ state.timerRunning
    /\ state.timerSeconds > 0

\* the card configured to start the timer, NoId when none is configured
autoStartCard(a) == RUNTIME_ALGORITHM(a).algorithm_meta.auto_start_on_card

\* the handler of the step made an advance that returned true and, when a start
\* card is configured, arrived on it
StartingAdvance ==
    /\ ev'.call.fn = "advance"
    /\ ev'.call.ret
    /\ autoStartCard(algo') = NoId \/ state'.currentId = autoStartCard(algo')

----------------------------------------------------------------------------
(* Wheel mode *)

\* the classification of a card, in the order of precedence claimed
modeOfCard(card) ==
    IF card.type = "cover" THEN "COVER"
    ELSE IF card.type = "decision" THEN "DECISION"
    ELSE IF card.type = "terminal" THEN "TERMINAL"
    ELSE IF card.phase \in {"loop", "cpr_loop"} THEN "LOOP"
    ELSE "LINEAR"

\* C16: in every state the operations leave (applyAlgorithm, advance, rewind,
\* option selection, gotoCard, reset, successful or not), state.wheel.mode is the
\* classification of DECK[currentId]: cover, else decision, else terminal, else
\* loop phase, else LINEAR, whatever the history and the mode before.
C16_ModeOfActiveCard ==
    HasCard(algo, state.currentId) => state.wheel.mode = modeOfCard(CurrentCard)

\* an advance has just arrived on a decision card of the loop phase with a
\* non-empty history: the mode is DECISION, not LOOP
C16_Witness ==
    /\ HasCard(algo, state.currentId)
    /\ CurrentCard.type = "decision"
    /\ CurrentCard.phase \in {"loop", "cpr_loop"}
    /\ state.wheel.mode = "DECISION"
    /\ state.history # <<>>
    /\ ev.call = Call("advance", TRUE, TRUE)

----------------------------------------------------------------------------
(* Gestures *)

\* deltas angleDelta can return: every whole degree around the threshold, and
\* every fifteenth degree up to half a turn either way
GestureDeltas == {d \in (-HALF_TURN)..HALF_TURN : Abs(d) <= 15 \/ d % 15 = 0}

GestureArcs ==
    {DEFAULT_WHEEL_ARC,
     [start_degrees |-> 30, end_degrees |-> 330, direction |-> "clockwise"]}

\* C17: for every delta and arc, with the default threshold t of 10 degrees,
\* isForwardGesture is delta > t on an anticlockwise arc and delta < -t on a
\* clockwise one, isReverseGesture is the mirror; the two are never both true, and
\* both are false whenever |delta| <= t.
C17_GestureClassification ==
    \A delta \in GestureDeltas, arc \in GestureArcs \cup {getCurrentWheelArc(algo)} :
        /\ isForwardGesture(delta, arc)
              <=> IF arc.direction = "anticlockwise" THEN delta > 10 ELSE delta < -10
        /\ isReverseGesture(delta, arc)
              <=> IF arc.direction = "anticlockwise" THEN delta < -10 ELSE delta > 10
        /\ ~(isForwardGesture(delta, arc) /\ isReverseGesture(delta, arc))
        /\ Abs(delta) <= 10 =>
              ~isForwardGesture(delta, arc) /\ ~isReverseGesture(delta, arc)

\* a knob drag on a clockwise arc has just been classified as forward and has
\* called advance
C17_Witness ==
    /\ isDraggingKnob
    /\ getCurrentWheelArc(algo).direction = "clockwise"
    /\ state.wheel.navConsumed
    /\ state.wheel.dragOrigin # NullAngle
    /\ ev.call.fn = "advance"

----------------------------------------------------------------------------
(* Zone drag *)

\* release positions on both sides of, and exactly at, 35% of each zone height
ReleaseYs == {229, 230, 231, 264, 265, 266, 300, 334, 335, 336, 369, 370, 371}

ReleaseHeights == {100, 200}

----------------------------------------------------------------------------
(* Automation *)

\* gotoCard(cardId) in the current state: refused without a change when the id is
\* not a card of the deck, a jump to the card otherwise
gotoContract(cardId, r) ==
    IF ~HasCard(algo, cardId)
    THEN /\ ~r.ok
         /\ r.error # ""
         /\ NavigationUnchanged(r)
         /\ r.state.carouselIndex = state.carouselIndex
         /\ r.state.wheel = state.wheel
    ELSE /\ r.ok
         /\ r.error = ""
         /\ r.state.currentId = cardId
         /\ r.state.history = <<>>
         /\ ~r.state.decisionTapped
         /\ r.state.carouselIndex = 0
         /\ r.state.wheel.mode = modeOfCard(DECK(algo)[cardId])
         /\ r.snapshot = snapshotForAutomation(r.state)
         /\ r.snapshot.currentId = cardId
         /\ r.snapshot.historySize = 0

\* C19: gotoCard(id) with an id that is not in the deck returns ok:false with an
\* error message and leaves currentId, history and the other navigation fields
\* unchanged; with an id of the deck it sets currentId to id, empties history,
\* clears decisionTapped and carouselIndex, derives wheel.mode from the target
\* card and returns ok:true with a snapshot of the resulting state
C19_GotoCardContract ==
    \A cardId \in GotoIds :
        gotoContract(cardId, setCurrentCardForAutomation(algo, W, cardId))

\* the same contract for every id that is not a member name of Object.prototype
GotoContractOfPlainIds ==
    \A cardId \in GotoIds \ ObjectPrototypeKeys :
        gotoContract(cardId, setCurrentCardForAutomation(algo, W, cardId))

\* a jump has been made from a card with history to a card of the deck
JumpedIntoDeck ==
    /\ algo # setRuntimeAlgorithm(EmptyAlgorithm)
    /\ HasCard(algo, state.currentId)
    /\ state.currentId # currentAlgorithmStartId(algo)
    /\ state.history = <<>>

\* C20: the automation call selectDecisionOption(index) returns ok:false with an
\* error and changes no state when the current card is not a split card; on a
\* split card of n options it sets decisionIndex to index clamped into [0, n-1]
\* and decisionTapped to true, leaves currentId, history, decisionRecords and
\* decisionTrail as they are, and returns ok:true
C20_SelectDecisionOptionContract ==
    \A index \in ClampRequests :
        LET Check(r) ==
                IF HasCard(algo, state.currentId)
                   /\ CurrentCard.transitions.type = "split"
                THEN /\ r.ok
                     /\ r.error = ""
                     /\ r.state.decisionIndex =
                            clampIndex(index, Len(CurrentCard.transitions.options))
                     /\ r.state.decisionTapped
                     /\ r.state.currentId = state.currentId
                     /\ r.state.history = state.history
                     /\ r.state.decisionRecords = state.decisionRecords
                     /\ r.state.decisionTrail = state.decisionTrail
                ELSE /\ ~r.ok
                     /\ r.error # ""
                     /\ r.state = state
                     /\ r.live = liveIntervals
        IN  Check(automationSelectOption(algo, W, index))

\* the last option of a split card is selected after moving to the card
C20_Witness ==
    /\ HasCard(algo, state.currentId)
    /\ CurrentCard.transitions.type = "split"
    /\ state.decisionIndex = Len(CurrentCard.transitions.options) - 1
    /\ state.decisionIndex > 0
    /\ state.decisionTapped
    /\ state.history # <<>>

----------------------------------------------------------------------------
(* Algorithm load *)

\* the algorithms a load can install: every deck of the model
LoadableAlgorithms ==
    {setRuntimeAlgorithm(normalizeAlgorithm(rawAlgorithm)) :
        rawAlgorithm \in RawAlgorithms \cup BranchAlgorithms}

\* C21: applyAlgorithm is a full reset.  From every reachable prior state, the
\* state after loading an algorithm has currentId = the first deck card's id,
\* empty history, decisionIndex 0, empty decisionRecords, decisionTrail and
\* checklistState, decisionTapped false, carouselIndex 0, timerSeconds 0 with
\* timerRunning false, dragOrigin null and navConsumed false; and it is the very
\* state the same load produces from the state created at process start
C21_FullReset ==
    \A a \in LoadableAlgorithms :
        LET Check(r) ==
                /\ r.state.currentId = RUNTIME_ALGORITHM(a).deck[1].id
                /\ r.state.history = <<>>
                /\ r.state.decisionIndex = 0
                /\ r.state.decisionRecords = EmptyMap
                /\ r.state.decisionTrail = <<>>
                /\ r.state.checklistState = EmptyMap
                /\ ~r.state.decisionTapped
                /\ r.state.carouselIndex = 0
                /\ r.state.timerSeconds = 0
                /\ ~r.state.timerRunning
                /\ r.state.wheel.dragOrigin = NullAngle
                /\ ~r.state.wheel.navConsumed
                /\ r.state = applyAlgorithm(a, [W EXCEPT !.state = InitialState]).state
        IN  Check(applyAlgorithm(a, W))

\* a prior state that differs from a fresh one in the fields the load resets
C21_Witness ==
    /\ state.history # <<>>
    /\ state.decisionRecords # EmptyMap
    /\ state.decisionTrail # <<>>
    /\ state.decisionTapped
    /\ state.timerRunning
    /\ state.timerSeconds > 0
    /\ state.currentId # currentAlgorithmStartId(algo)

----------------------------------------------------------------------------
(* Forward path on arbitrary graphs *)

WalkTargets == {"A", "B", "C", "GHOST", "constructor"}

\* what a card of a walk graph may carry: nothing, an edge to any target (a card,
\* itself, a back-edge, a dangling id), a self_loop, a split of two targets
WalkTransitions ==
    {NoTransitions}
        \cup {Linear(t) : t \in WalkTargets}
        \cup {SelfLoop(t) : t \in {"A", "B", "C"}}
        \cup {Split(<<Opt("X", t[1]), Opt("Y", t[2])>>) :
                t \in {<<"A", "C">>, <<"B", "C">>, <<"C", "B">>, <<"C", "GHOST">>,
                       <<"GHOST", "A">>, <<"B", "B">>, <<"constructor", "A">>}}

\* a card that keeps a missing transition (a complete card gets no default edge)
WalkCard(id, transitions) ==
    RawCard(id, "standard", IF transitions = NoTransitions THEN "complete" ELSE "",
            "", transitions, 0, <<>>)

\* Every deck of three cards A, B, C whose first card leads on and whose other
\* two cards carry any of the transitions above
WalkGraphs ==
    {[algorithm_meta |-> [wheel_arc |-> NoArc, auto_start_on_card |-> NoId],
      deck |-> <<WalkCard("A", ta), WalkCard("B", tb), WalkCard("C", tc)>>] :
        ta \in {Linear("B"), Split(<<Opt("X", "B"), Opt("Y", "C")>>)},
        tb \in WalkTransitions, tc \in WalkTransitions}

NextWalk == \E rawAlgorithm \in WalkGraphs : ApplyAlgorithm(rawAlgorithm)

SpecWalk == Init /\ [][NextWalk]_vars

\* every decisionRecords object over the cards of the loaded deck
RecordMaps ==
    UNION {[ids -> 0..2] : ids \in SUBSET CardIds(algo)}

\* why the walk ended after the last id of a non-empty path
walkStopped(records, path) ==
    LET last == path[Len(path)]
        next == forwardStep(algo, records, last, Range(path))
    IN  \/ entryTransitions(algo, last).type = "none"
        \/ next \in Range(path)
        \/ ~HasCard(algo, next)
        \/ /\ entryTransitions(algo, last).type = "self_loop"
           /\ entryTransitions(algo, last).next_id = last

\* C22: computeForwardPath terminates on every graph, cycles, back-edges,
\* self-loops and dangling targets included.  One id is pushed per pass of its
\* loop, so the passes number Len(path): the path holds cards of the deck only,
\* each at most once, is no longer than the deck, and ended at a card without
\* transitions, at an id already on the path, at a target missing from the deck
\* or at a self_loop pointing to itself
C22_ForwardPathTerminates ==
    \A records \in RecordMaps :
        LET Check(path) ==
                /\ distinctIds(path)
                /\ Len(path) <= Len(RUNTIME_ALGORITHM(algo).deck)
                /\ Range(path) \subseteq CardIds(algo)
                /\ path # <<>> => walkStopped(records, path)
        IN  Check(computeForwardPath(algo, records))

\* the walk ends and repeats no id on every graph: the passes of the loop are at
\* most one more than the cards of the deck
WalkEndsWithoutRepeats ==
    \A records \in RecordMaps :
        LET Check(path) ==
                /\ distinctIds(path)
                /\ Len(path) <= Len(RUNTIME_ALGORITHM(algo).deck) + 1
        IN  Check(computeForwardPath(algo, records))

\* the claim on the graphs none of whose edges names a member of Object.prototype
PlainGraph ==
    \A id \in CardIds(algo) :
        /\ DECK(algo)[id].transitions.next_id \notin ObjectPrototypeKeys
        /\ \A i \in DOMAIN DECK(algo)[id].transitions.options :
              DECK(algo)[id].transitions.options[i].target_id \notin ObjectPrototypeKeys

ForwardPathOfPlainGraphs == PlainGraph => C22_ForwardPathTerminates

----------------------------------------------------------------------------
(* Anchor index *)

\* 0-based position of the id in a sequence of distinct ids that holds it
indexOf(seq, id) == (CHOOSE i \in DOMAIN seq : seq[i] = id) - 1

\* anchorIndex as the claim gives it for a card and an anchor list
claimedAnchorIndex(ids, cardId) ==
    IF cardId \in Range(ids) THEN indexOf(ids, cardId)
    ELSE IF ids = <<>> THEN 0
    ELSE Len(ids) - 1

\* C23: syncAnchors fallback.  A render of any reachable state leaves the forward
\* path as the anchor list and anchorIndex at the position of currentId on it, or
\* at the last anchor when currentId is off the path; in every state with a
\* current card anchorIndex is that index for the stored anchors; and in every
\* state anchorIndex is an index of the anchor list (0 for an empty list), so
\* currentAnchorAngle reads an anchor that exists
C23_AnchorIndexValid ==
    LET Synced(s) ==
            /\ anchorIds(s.anchors) = computeForwardPath(algo, state.decisionRecords)
            /\ s.anchorIndex =
                   claimedAnchorIndex(computeForwardPath(algo, state.decisionRecords),
                                      state.currentId)
    IN  /\ Synced(syncAnchors(algo, state))
        /\ HasCard(algo, state.currentId) =>
               /\ Synced(render(algo, state))
               /\ state.anchorIndex =
                      claimedAnchorIndex(anchorIds(state.anchors), state.currentId)
        /\ IF state.anchors = <<>> THEN state.anchorIndex = 0
           ELSE state.anchorIndex + 1 \in DOMAIN state.anchors
        /\ state.anchors # <<>> =>
               currentAnchorAngle(algo, state) = state.anchors[state.anchorIndex + 1].angle

\* after a jump the current card is off the forward path and the index is the
\* last anchor's
C23_Witness ==
    /\ HasCard(algo, state.currentId)
    /\ state.anchors # <<>>
    /\ state.currentId \notin Range(anchorIds(state.anchors))
    /\ state.anchorIndex = Len(state.anchors) - 1
    /\ Len(state.anchors) > 1

----------------------------------------------------------------------------
(* History *)

\* the current card is a self_loop that is not complete and leads to itself
OnOwnLoop ==
    /\ HasCard(algo, state.currentId)
    /\ CurrentCard.status # "complete"
    /\ CurrentCard.transitions.type = "self_loop"
    /\ CurrentCard.transitions.next_id \in {NoId, state.currentId}

\* C24: history discipline.  An advance that returns true appends the card it
\* left to history exactly when the card changes (history grows by one entry,
\* the card advanced from) and leaves history alone otherwise; an advance on a
\* self_loop leading to the card itself returns true with currentId and history
\* unchanged; a rewind that returns true moves to the last history entry and
\* removes that entry and no other
C24_HistoryDiscipline ==
    /\ \A source \in Sources, splitConfirmed \in BOOLEAN :
          LET Check(r) ==
                  /\ r.ret /\ r.state.currentId # state.currentId =>
                         /\ r.state.history = Append(state.history, state.currentId)
                         /\ Last(r.state.history) = state.currentId
                  /\ r.ret /\ r.state.currentId = state.currentId =>
                         r.state.history = state.history
                  /\ ~r.ret => r.state.history = state.history
                  /\ OnOwnLoop =>
                         /\ r.ret
                         /\ r.state.currentId = state.currentId
                         /\ r.state.history = state.history
          IN  Check(advance(algo, W, source, splitConfirmed))
    /\ LET Check(r) ==
               /\ r.ret <=> state.history # <<>>
               /\ r.ret =>
                      /\ r.state.history = Front(state.history)
                      /\ r.state.currentId = Last(state.history)
               /\ ~r.ret => r.state = state
       IN  Check(rewind(algo, W))

\* an advance has just returned true on a self_loop card reached by a jump: the
\* history is still empty
C24_Witness ==
    /\ OnOwnLoop
    /\ ev.call.fn = "advance"
    /\ ev.call.ret
    /\ state.history = <<>>

----------------------------------------------------------------------------
(* Decision index after an advance *)

optionCount(id) == Len(DECK(algo)[id].transitions.options)

C26_IndexResetAfterConfirm ==
    \A source \in Sources, splitConfirmed \in BOOLEAN :
        LET Check(r) ==
                r.ret /\ isSplitDecisionCard(algo, state.currentId) =>
                    r.state.decisionIndex = 0
        IN  Check(advance(algo, W, source, splitConfirmed))

\* the reset does take place whenever the card reached is not a split card
IndexResetOffSplitCards ==
    \A source \in Sources, splitConfirmed \in BOOLEAN :
        LET Check(r) ==
                r.ret /\ isSplitDecisionCard(algo, state.currentId)
                      /\ ~isSplitDecisionCard(algo, r.state.currentId) =>
                    r.state.decisionIndex = 0
        IN  Check(advance(algo, W, source, splitConfirmed))

----------------------------------------------------------------------------
(* Decision trail *)

IsPrefix(p, q) == Len(p) <= Len(q) /\ SubSeq(q, 1, Len(p)) = p

\* the call advance({source, splitConfirmed}) reaches the split branch's commit
commitsSplit(source, splitConfirmed) ==
    /\ HasCard(algo, state.currentId)
    /\ CurrentCard.status # "complete"
    /\ isSplitDecisionCard(algo, state.currentId)
    /\ splitConfirmed \/ source = "automation"

\* the trail of r is the current trail plus one entry for the current card, the
\* clamped live index, that option's label and target, and the source
appendsDecision(r, source) ==
    LET index == clampIndex(state.decisionIndex, optionCount(state.currentId))
        entry == Last(r.state.decisionTrail)
    IN  /\ Front(r.state.decisionTrail) = state.decisionTrail
        /\ Len(r.state.decisionTrail) = Len(state.decisionTrail) + 1
        /\ entry.card_id = state.currentId
        /\ entry.option_index = index
        /\ entry.option_label = CurrentCard.transitions.options[index + 1].label
        /\ entry.target_id = CurrentCard.transitions.options[index + 1].target_id
        /\ entry.source = source

\* C27: decisionTrail is an append-only log between algorithm loads.  An advance
\* that commits a split appends exactly one entry (card id, chosen index, label,
\* resolved target, source) and any other advance none; rewind, option
\* selection and gotoCard / reset leave the trail as it is; and over every step
\* that is not a load the old trail is a prefix of the new one, at most one
\* entry longer
C27_TrailAppendOnly ==
    /\ [](/\ \A source \in Sources, splitConfirmed \in BOOLEAN :
                LET Check(r) ==
                        IF commitsSplit(source, splitConfirmed)
                        THEN appendsDecision(r, source)
                        ELSE r.state.decisionTrail = state.decisionTrail
                IN  Check(advance(algo, W, source, splitConfirmed))
          /\ rewind(algo, W).state.decisionTrail = state.decisionTrail
          /\ \A index \in ClampRequests :
                automationSelectOption(algo, W, index).state.decisionTrail
                    = state.decisionTrail
          /\ \A cardId \in GotoIds :
                setCurrentCardForAutomation(algo, W, cardId).state.decisionTrail
                    = state.decisionTrail)
    /\ [][\/ /\ IsPrefix(state.decisionTrail, state'.decisionTrail)
             /\ Len(state'.decisionTrail) <= Len(state.decisionTrail) + 1
          \/ \E rawAlgorithm \in RawAlgorithms : ApplyAlgorithm(rawAlgorithm)]_vars

\* a logged decision is still in the trail after a rewind back onto its card
C27_Witness ==
    /\ ev.call = Call("rewind", FALSE, TRUE)
    /\ state.decisionTrail # <<>>
    /\ Last(state.decisionTrail).card_id = state.currentId
    /\ state.decisionTapped

----------------------------------------------------------------------------
(* Automation advance *)

\* advance() of the automation object called in the current state: it returns
\* ok:true with moved = the result of advance and the ids before and after; on a
\* split card that is not complete it records the option at the clamped
\* decisionIndex and logs it, selected or not, and moves to the option's target
\* (whenever movesAlways, else only when the target is a card of the deck:
\* otherwise moved is false and currentId stays)
automationAdvanceContract(movesAlways) ==
    LET id == state.currentId
        Check(r) ==
            /\ r.ok
            /\ r.error = ""
            /\ r.moved = advance(algo, W, "automation", FALSE).ret
            /\ r.state = advance(algo, W, "automation", FALSE).state
            /\ r.before_id = id
            /\ r.after_id = r.state.currentId
            /\ r.snapshot = snapshotForAutomation(r.state)
            /\ r.moved \/ r.after_id = id
            /\ (isSplitDecisionCard(algo, id) /\ CurrentCard.status # "complete") =>
                   LET index == clampIndex(state.decisionIndex, optionCount(id))
                       target == CurrentCard.transitions.options[index + 1].target_id
                   IN  /\ r.state.decisionRecords = MapSet(state.decisionRecords, id, index)
                       /\ appendsDecision(r, "automation")
                       /\ IF movesAlways \/ HasCard(algo, target)
                          THEN r.moved /\ r.after_id = target
                          ELSE ~r.moved /\ r.after_id = id
    IN  Check(automationAdvanceCall(algo, W))

KnobDragNavigates ==
    /\ \E angle \in PointerAngles : onKnobDrag(angle)
    /\ ev'.call.fn \in {"advance", "rewind"}
    /\ ev'.call.ret

KnobDragRearmed ==
    \/ \E angle \in PointerAngles : startKnobDrag(angle)
    \/ \E y \in ClientYs : PointerUp(y)
    \/ PointerCancel
    \/ \E rawAlgorithm \in RawAlgorithms : ApplyAlgorithm(rawAlgorithm)

AlgoModes ==
    [algorithm_meta |-> [wheel_arc |-> NoArc, auto_start_on_card |-> NoId],
     deck |-> <<
        Step("S", "ASK"),
        RawCard("ASK", "decision", "", "",
                Split(<<Opt("STOP", "T"), Opt("LOOP", "CPR"), Opt("ODD", "Q")>>), 0, <<>>),
        End("T"),
        RawCard("CPR", "loop_start", "", "cpr_loop", Linear("ASK"), 0, <<>>),
        RawCard("Q", "decision", "", "", Linear("T"), 0, <<>>)
     >>]

DragAlgorithms == {AlgoBls, AlgoModes}

GestureAngles == PointerAngles \cup {290, 312, 335}

NextDrag ==
    \/ \E rawAlgorithm \in DragAlgorithms : ApplyAlgorithm(rawAlgorithm)
    \/ \E angle \in PointerAngles : startKnobDrag(angle)
    \/ \E angle \in GestureAngles : onKnobDrag(angle)
    \/ \E y \in ClientYs : PointerUp(y)
    \/ \E idx \in 0..2 : selectDecisionOption(idx)

SpecDrag == Init /\ [][NextDrag]_vars

\* the call the mode table of the drag names for a gesture
permittedCall(mode, forward, reverse, tapped) ==
    IF mode = "COVER" THEN (IF forward THEN "advance" ELSE "none")
    ELSE IF mode = "TERMINAL" THEN (IF reverse THEN "rewind" ELSE "none")
    ELSE IF mode = "DECISION"
    THEN (IF reverse THEN "rewind" ELSE IF forward /\ tapped THEN "advance" ELSE "none")
    ELSE IF forward THEN "advance"
    ELSE IF reverse THEN "rewind"
    ELSE "none"

\* two states that differ at most in where the knob is drawn and in the one-shot flag
sameNavigation(s1, s2) ==
    [s1 EXCEPT !.wheel.visualAngle = 0, !.wheel.navConsumed = FALSE]
        = [s2 EXCEPT !.wheel.visualAngle = 0, !.wheel.navConsumed = FALSE]

\* DECISION mode on a card whose transitions are not a split
decisionWithoutSplit(a, s) ==
    s.wheel.mode = "DECISION" /\ DECK(a)[s.currentId].transitions.type # "split"

\* a pointer move to angle in the current drag does what the table names
modeTable(angle) ==
    \A arc \in {getCurrentWheelArc(algo)} :
    \A delta \in {angleDelta(state.wheel.dragOrigin, clampAngleToArc(angle, arc))} :
    \A call \in {permittedCall(state.wheel.mode, isForwardGesture(delta, arc),
                              isReverseGesture(delta, arc), state.decisionTapped)} :
    \A r \in {knobDragStep(algo, W, angle)} :
        /\ call = "none" =>
             /\ r.fn = "none"
             /\ sameNavigation(r.w.state, state)
             /\ r.w.state.wheel.navConsumed = state.wheel.navConsumed
             /\ r.w.live = liveIntervals
        /\ call = "advance" =>
             \A w1 \in {advance(algo, W, "wheel-drag", state.wheel.mode = "DECISION")} :
                sameNavigation(r.w.state, w1.state) /\ r.w.live = w1.live
        /\ call = "rewind" =>
             \A w1 \in {rewind(algo, W)} :
                sameNavigation(r.w.state, w1.state) /\ r.w.live = w1.live

knobDragUnconsumed ==
    /\ isDraggingKnob
    /\ HasCard(algo, state.currentId)
    /\ ~state.wheel.navConsumed
    /\ state.wheel.dragOrigin # NullAngle

\* C30: while the knob is dragged and no navigation was consumed, a pointer
\* move has the effect of advance for a forward gesture in COVER, LINEAR and
\* LOOP and for a forward gesture in DECISION with decisionTapped, the effect
\* of rewind for a reverse gesture in TERMINAL, DECISION, LINEAR and LOOP, and
\* otherwise makes no call and changes nothing but the drawn knob angle.
C30_ModeTable ==
    knobDragUnconsumed => \A angle \in GestureAngles : modeTable(angle)

\* the table holds on every card but a decision card without split transitions
ModeTableOnSplitDecisions ==
    knobDragUnconsumed /\ ~decisionWithoutSplit(algo, state)
        => \A angle \in GestureAngles : modeTable(angle)

\* on a decision card without split transitions no gesture has any effect
DecisionWithoutSplitIgnoresDrag ==
    knobDragUnconsumed /\ decisionWithoutSplit(algo, state)
        => \A angle \in GestureAngles :
              \A r \in {knobDragStep(algo, W, angle)} :
                 r.fn = "none" /\ r.w.state = state

(* Inert knob drag *)

InertAngles == GestureAngles \cup {315}

\* the pointer position stays within the threshold of where the drag began
withinThreshold(a, origin, angle) ==
    Abs(angleDelta(clampAngleToArc(origin, getCurrentWheelArc(a)),
                   clampAngleToArc(angle, getCurrentWheelArc(a)))) <= NAV_THRESHOLD_DEG

\* g after a pointer move of the knob drag in progress
knobDragMoved(a, g, angle) ==
    \* the move's world, put back among the drag variables
    LET Back(r) == [g EXCEPT !.state = r.w.state, !.live = r.w.live]
    IN  IF ~g.isDraggingKnob \/ ~HasCard(a, g.state.currentId) THEN g
        ELSE Back(knobDragStep(a, [state |-> g.state, live |-> g.live, ret |-> FALSE],
                               angle))

\* what the release of an inert drag must leave: everything as before the drag
\* but the drawn knob, which sits on the anchor of the current card
inertDragReverted(before, after) ==
    /\ [after.state EXCEPT !.wheel.angle = 0, !.wheel.visualAngle = 0]
          = [before.state EXCEPT !.wheel.angle = 0, !.wheel.visualAngle = 0,
                                 !.wheel.dragOrigin = NullAngle,
                                 !.wheel.navConsumed = FALSE]
    /\ after.live = before.live
    /\ ~after.isDraggingKnob
    /\ after.state.anchorIndex \in 0..(Len(after.state.anchors) - 1)
    /\ after.state.wheel.angle = after.state.anchors[after.state.anchorIndex + 1].angle
    /\ normalizeDegrees(after.state.wheel.visualAngle) = after.state.wheel.angle

\* C31: a knob drag whose pointer never leaves the threshold, then is lifted,
\* leaves currentId, history, the decision state and everything else as they
\* were, with wheel.angle the angle of anchors[anchorIndex] and visualAngle
\* congruent to it modulo 360; a drag started afterwards acts on any gesture
\* exactly as it would have acted before the inert drag.
C31_InertDragReverted ==
    HasCard(algo, state.currentId) =>
        \A origin \in PointerAngles :
        \A first \in {angle \in InertAngles : withinThreshold(algo, origin, angle)} :
        \A g1 \in {knobDragMoved(algo, knobDragStarted(algo, G, origin), first)} :
            /\ \A second \in {angle \in InertAngles :
                                  withinThreshold(algo, origin, angle)} :
                  inertDragReverted(G, endKnobDrag(algo, knobDragMoved(algo, g1, second)))
            /\ \A g3 \in {endKnobDrag(algo, g1)} :
               \A next \in GestureAngles :
               \A r0 \in {knobDragMoved(algo, knobDragStarted(algo, G, origin), next)} :
               \A r1 \in {knobDragMoved(algo, knobDragStarted(algo, g3, origin), next)} :
                  /\ sameNavigation(r0.state, r1.state)
                  /\ r0.state.wheel.navConsumed = r1.state.wheel.navConsumed
                  /\ r0.live = r1.live

\* off the start card, an inert drag that dragged the drawn knob off its anchor
C31_Witness ==
    /\ Len(state.history) > 0
    /\ HasCard(algo, state.currentId)
    /\ \E origin \in PointerAngles, angle \in InertAngles :
          /\ withinThreshold(algo, origin, angle)
          /\ \E g1 \in {knobDragMoved(algo, knobDragStarted(algo, G, origin), angle)} :
                /\ g1.state.wheel.visualAngle # state.wheel.visualAngle
                /\ ~g1.state.wheel.navConsumed
                /\ endKnobDrag(algo, g1).state.wheel.visualAngle
                      # g1.state.wheel.visualAngle

(* Anchor placement *)

\* wheel_arc entries of algorithm_meta: both directions, arcs that pass through
\* 0 degrees, degrees outside [0, 360), an arc of no extent, an absent arc
PlacementRawArcs ==
    {NoArc,
     [start_degrees |-> 30, end_degrees |-> 330, direction |-> "clockwise"],
     [start_degrees |-> 10, end_degrees |-> 310, direction |-> "anticlockwise"],
     [start_degrees |-> 350, end_degrees |-> 50, direction |-> "clockwise"],
     [start_degrees |-> 180, end_degrees |-> 360, direction |-> "anticlockwise"],
     [start_degrees |-> 720, end_degrees |-> 480, direction |-> "clockwise"],
     [start_degrees |-> 90, end_degrees |-> 90, direction |-> "anticlockwise"],
     [start_degrees |-> 0, end_degrees |-> 240, direction |-> "sideways"]}

PlacementArcs == {normalizeWheelArc([wheel_arc |-> raw]) : raw \in PlacementRawArcs}

PlacementPaths == {SubSeq(<<"A", "B", "C", "D", "E", "F", "G">>, 1, n) : n \in 1..7}

\* how far an angle lies from the start of the arc, in the arc's direction
alongArc(arc, angle) ==
    IF arc.direction = "anticlockwise"
    THEN JsRem(arc.start_degrees - angle + FULL_TURN, FULL_TURN)
    ELSE JsRem(angle - arc.start_degrees + FULL_TURN, FULL_TURN)

wellPlaced(path, arc, anchors) ==
    /\ Len(anchors) = Len(path)
    /\ \A i \in DOMAIN anchors :
          /\ anchors[i].id = path[i]
          /\ anchors[i].angle \in 0..(FULL_TURN - 1)
          /\ isAngleWithinArc(anchors[i].angle, arc)
          /\ alongArc(arc, anchors[i].angle) <= alongArc(arc, arc.end_degrees)
          /\ alongArc(arc, anchors[i].angle) * (Len(path) - 1)
                = alongArc(arc, arc.end_degrees) * (i - 1)
          /\ i > 1 => alongArc(arc, anchors[i - 1].angle) <= alongArc(arc, anchors[i].angle)
    /\ anchors[1].angle = arc.start_degrees
    /\ Len(path) >= 2 => anchors[Len(path)].angle = arc.end_degrees

\* C32: the anchors of a path of n cards sit at the fractions i/(n-1) of the
\* arc: the first at arc.start_degrees, the last (n >= 2) at arc.end_degrees,
\* every angle in [0, 360) and inside the arc, the distance from the start in
\* the arc's direction never decreasing; a single card sits at the start. It
\* holds for the forward path of the loaded deck under its records and for
\* paths of one to seven cards on arcs of either direction.
C32_AnchorPlacement ==
    /\ \A path \in {computeForwardPath(algo, state.decisionRecords)} :
          Len(path) > 0 =>
             wellPlaced(path, getCurrentWheelArc(algo),
                        computeAnchors(algo, state.decisionRecords))
    /\ \A arc \in PlacementArcs, path \in PlacementPaths :
          wellPlaced(path, arc, anchorsOnArc(path, arc))

\* a forward path of at least three cards under a recorded decision, on the
\* clockwise arc: an anchor strictly between the two ends
C32_Witness ==
    /\ state.decisionRecords # EmptyMap
    /\ getCurrentWheelArc(algo).direction = "clockwise"
    /\ \E anchors \in {computeAnchors(algo, state.decisionRecords)} :
          /\ Len(anchors) >= 3
          /\ anchors[2].angle \notin {getCurrentWheelArc(algo).start_degrees,
                                       getCurrentWheelArc(algo).end_degrees}

(* Loader default linking *)

\* what a card file may say of a card: its type, its status and its transitions
\* (omitted, empty, linear, self loop, splits with and without usable options)
LoaderShapes ==
    {<<"standard", "", NoTransitions>>,
     <<"terminal", "", NoTransitions>>,
     <<"standard", "complete", NoTransitions>>,
     <<"standard", "handoff", NoTransitions>>,
     <<"standard", "", Linear(NoId)>>,
     <<"standard", "complete", Linear(NoId)>>,
     <<"standard", "complete", Linear("Z")>>,
     <<"standard", "", SelfLoop(NoId)>>,
     <<"standard", "", Split(<<>>)>>,
     <<"terminal", "", Split(<<Opt("a", NoId)>>)>>,
     <<"decision", "", Split(<<Opt("", NoId), Opt("", "Z"), Opt("c", "Y")>>)>>}

LoaderCard(id, shape) == RawCard(id, shape[1], shape[2], "", shape[3], 0, <<>>)

\* decks of three cards, with or without an entry that has no id between the
\* first two
LoaderDecks ==
    {[algorithm_meta |-> [wheel_arc |-> NoArc, auto_start_on_card |-> NoId],
      deck |-> IF gap
               THEN <<LoaderCard("X", x), LoaderCard(NoId, x), LoaderCard("Y", y),
                      LoaderCard("Z", z)>>
               ELSE <<LoaderCard("X", x), LoaderCard("Y", y), LoaderCard("Z", z)>>] :
        x \in LoaderShapes, y \in LoaderShapes,
        z \in {<<"standard", "", NoTransitions>>, <<"terminal", "complete", NoTransitions>>,
               <<"standard", "", Split(<<Opt("", NoId)>>)>>,
               <<"standard", "", SelfLoop("X")>>},
        gap \in BOOLEAN}

NextLoad == \E rawAlgorithm \in LoaderDecks : ApplyAlgorithm(rawAlgorithm)

SpecLoad == Init /\ [][NextLoad]_vars

terminalLike(card) ==
    card.type = "terminal" \/ card.status = "complete" \/ card.status = "handoff"

\* the cards of a file that have an id, in file order
cardsWithId(rawAlgorithm) ==
    LET HasId(card) == card.id # NoId IN SelectSeq(rawAlgorithm.deck, HasId)

defaultLinked(raw, deck) ==
    /\ Len(deck) = Len(raw)
    /\ \A i \in DOMAIN deck :
          /\ deck[i].id = raw[i].id
          /\ raw[i].transitions.type = "none" /\ ~terminalLike(raw[i]) /\ i < Len(deck)
                => deck[i].transitions = Linear(deck[i + 1].id)
          /\ deck[i].transitions = NoTransitions
                => terminalLike(raw[i]) \/ i = Len(deck)
          /\ deck[i].transitions.type = "split"
                => /\ Len(deck[i].transitions.options) >= 1
                   /\ \A k \in DOMAIN deck[i].transitions.options :
                         deck[i].transitions.options[k].target_id # NoId

\* C33: in the deck normalizeAlgorithm made of a file, a card whose transitions
\* were omitted and that is not terminal-like points linearly at the card that
\* follows it, a card has no transitions only if it is terminal-like or the
\* last card, and every split has at least one option and only options with a
\* target.
C33_DefaultLinking ==
    \A rawAlgorithm \in LoaderDecks \cup RawAlgorithms :
        setRuntimeAlgorithm(normalizeAlgorithm(rawAlgorithm)) = algo
            => defaultLinked(cardsWithId(rawAlgorithm), RUNTIME_ALGORITHM(algo).deck)

\* a loaded deck whose first card was linked by default across an entry without
\* id, next to a split that lost options and a card left without transitions
C33_Witness ==
    /\ Len(RUNTIME_ALGORITHM(algo).deck) = 3
    /\ \E rawAlgorithm \in LoaderDecks :
          /\ setRuntimeAlgorithm(normalizeAlgorithm(rawAlgorithm)) = algo
          /\ Len(rawAlgorithm.deck) = 4
          /\ rawAlgorithm.deck[1].transitions = NoTransitions
    /\ DECK(algo)["X"].transitions = Linear("Y")
    /\ DECK(algo)["Y"].transitions.type = "split"
    /\ Len(DECK(algo)["Y"].transitions.options) = 2
    /\ DECK(algo)["Z"].transitions = NoTransitions

(* Anchor cache *)

\* applyAlgorithm has run: store.ts starts with an empty deck
algorithmLoaded == RUNTIME_ALGORITHM(algo).deck # <<>>

wheelAngleOnCachedAnchor ==
    /\ state.anchorIndex \in 0..(Len(state.anchors) - 1)
    /\ state.wheel.angle = state.anchors[state.anchorIndex + 1].angle

\* C34: once an algorithm is loaded, after every operation state.anchors is the
\* anchor list computed from the loaded graph and the current decisionRecords,
\* and wheel.angle is the angle of anchors[anchorIndex].
C34_AnchorCacheCoherent ==
    algorithmLoaded =>
        /\ state.anchors = computeAnchors(algo, state.decisionRecords)
        /\ wheelAngleOnCachedAnchor

\* every recorded option leads to a card of the deck
recordsLeadIntoDeck(a, records) ==
    \A id \in DOMAIN records :
        /\ isSplitDecisionCard(a, id)
        /\ records[id] + 1 \in DOMAIN DECK(a)[id].transitions.options
        /\ HasCard(a, DECK(a)[id].transitions.options[records[id] + 1].target_id)

\* the cache is coherent in every state whose records all lead into the deck
\* and whose current card exists
AnchorCacheOfLeadingRecords ==
    /\ algorithmLoaded
    /\ recordsLeadIntoDeck(algo, state.decisionRecords)
    /\ HasCard(algo, state.currentId)
    => state.anchors = computeAnchors(algo, state.decisionRecords)

\* the knob angle is the angle of the cached anchor it points at
WheelAngleOnCachedAnchor == algorithmLoaded => wheelAngleOnCachedAnchor

(* Direct jump *)

\* a gotoCard that returned ok leaves decisionRecords, decisionTrail and
\* checklistState as they were, and the elapsed timer either as it was or reset
gotoFrame(timerKept) ==
    \A cardId \in GotoIds :
    \A r \in {setCurrentCardForAutomation(algo, W, cardId)} :
        r.ok =>
            /\ r.state.decisionRecords = state.decisionRecords
            /\ r.state.decisionTrail = state.decisionTrail
            /\ r.state.checklistState = state.checklistState
            /\ r.state.history = <<>>
            /\ IF timerKept
               THEN /\ r.state.timerSeconds = state.timerSeconds
                    /\ r.state.timerRunning = state.timerRunning
               ELSE /\ r.state.timerSeconds = 0
                    /\ ~r.state.timerRunning
                    /\ r.live = 0

AlgoLoop ==
    [algorithm_meta |-> [wheel_arc |-> NoArc, auto_start_on_card |-> NoId],
     deck |-> <<
        Step("S", "D"),
        RawCard("D", "decision", "", "",
                Split(<<Opt("AGAIN", "X"), Opt("OUT", "Y")>>), 0, <<>>),
        Step("X", "D"),
        End("Y")
     >>]

LoopAlgorithms == {AlgoLoop, AlgoBls}

\* Commit for walks long enough to pass a decision twice
CommitLoop(w) ==
    /\ Len(w.state.history) <= MaxLoopHistory
    /\ Len(w.state.decisionTrail) <= MaxLoopTrail
    /\ state' = w.state
    /\ liveIntervals' = w.live
    /\ UNCHANGED <<isDraggingKnob, isDraggingDecision, draggedElement, dragStartY,
                   drag, docListeners>>

loadOnLoop(rawAlgorithm) ==
    LET Applied(a) == algo' = a /\ CommitLoop(applyAlgorithm(a, W))
    IN  /\ Applied(setRuntimeAlgorithm(normalizeAlgorithm(rawAlgorithm)))
        /\ ev' = Ev("other", NoCall)

selectOnLoop(index) ==
    /\ CommitLoop(automationSelectOption(algo, W, index))
    /\ ev' = Ev("other", NoCall)
    /\ UNCHANGED algo

advanceOnLoop ==
    LET Done(w1) == CommitLoop(w1) /\ ev' = Ev("other", Call("advance", TRUE, w1.ret))
    IN  Done(automationAdvanceCall(algo, W)) /\ UNCHANGED algo

backOnLoop ==
    LET Done(w1) == CommitLoop(w1) /\ ev' = Ev("other", Call("rewind", FALSE, w1.ret))
    IN  Done(rewind(algo, W)) /\ UNCHANGED algo

\* load, advance, rewind and option selection only
NextLoop ==
    \/ \E rawAlgorithm \in LoopAlgorithms : loadOnLoop(rawAlgorithm)
    \/ \E index \in {0, 1} : selectOnLoop(index)
    \/ advanceOnLoop
    \/ backOnLoop

SpecLoop == Init /\ [][NextLoop]_vars

\* the anchor list holds the card and anchorIndex is where
knobOnCard(s) ==
    /\ \E i \in DOMAIN s.anchors : s.anchors[i].id = s.currentId
    /\ s.anchors[s.anchorIndex + 1].id = s.currentId

\* C36: once an algorithm is loaded, in every state reached through advance,
\* rewind and option selection the current card is in the anchor list and
\* anchorIndex is its index.
C36_KnobOnActiveCard == algorithmLoaded => knobOnCard(state)

\* a load leaves the knob on the start card, and from a card that lies on the
\* forward path every advance that moves lands on a card of the anchor list with
\* anchorIndex its index, also when it re-decides a decision passed before
AdvanceKeepsKnobOnCard ==
    /\ \A rawAlgorithm \in LoopAlgorithms :
       \A a \in {setRuntimeAlgorithm(normalizeAlgorithm(rawAlgorithm))} :
          knobOnCard(applyAlgorithm(a, W).state)
    /\ state.currentId \in Range(computeForwardPath(algo, state.decisionRecords))
          => \A r \in {advance(algo, W, "automation", TRUE)} :
                r.ret => /\ knobOnCard(r.state)
                         /\ r.state.anchors
                               = computeAnchors(algo, r.state.decisionRecords)

\* the decision was taken twice, the second time out of the loop, and the knob
\* is on the card reached
RedecidedOutOfLoop ==
    /\ state.currentId = "Y"
    /\ state.history = <<"S", "D", "X", "D">>
    /\ Len(state.decisionTrail) = 2
    /\ knobOnCard(state)

(* Navigation stays on the deck *)

\* C37: for a loaded algorithm with a non-empty deck, in every state reached
\* through advance, rewind, option selection, gotoCard and reset, currentId and
\* every id stored in history are keys of DECK.
C37_NavigationOnDeck ==
    algorithmLoaded =>
        /\ state.currentId \in CardIds(algo)
        /\ \A i \in 1..Len(state.history) : state.history[i] \in CardIds(algo)

\* the ids stored in history are keys of DECK, and currentId is one unless a
\* jump has left it without an id
HistoryOnDeck ==
    algorithmLoaded =>
        /\ state.currentId \in CardIds(algo) \cup {NoId}
        /\ \A i \in 1..Len(state.history) : state.history[i] \in CardIds(algo)

\* advance, rewind and option selection never leave the deck: currentId loses
\* its card only in a jump, which also empties history
LeavesDeckOnlyByJump ==
    [][(state.currentId \in CardIds(algo) /\ state'.currentId \notin CardIds(algo')
            /\ RUNTIME_ALGORITHM(algo').deck # <<>>)
        => state'.currentId = NoId /\ state'.history = <<>> /\ ev'.event = "other"]_vars

(* Decision records and the audit trail *)

\* the entry of decisionTrail at index i is the most recent one of its card
mostRecentEntry(trail, i) ==
    \A j \in (i + 1)..Len(trail) : trail[j].card_id # trail[i].card_id

\* C38: in every reachable state each key of decisionRecords is the id of a
\* split-decision card of the deck, its value is a valid option index of that
\* card and equals the option_index of the most recent decisionTrail entry for
\* that card, and every split-decision card id that occurs in history has a
\* record.
C38_RecordsMatchTrail ==
    /\ \A id \in DOMAIN state.decisionRecords :
        /\ isSplitDecisionCard(algo, id)
        /\ state.decisionRecords[id] \in 0..(Len(DECK(algo)[id].transitions.options) - 1)
        /\ \E i \in 1..Len(state.decisionTrail) :
            /\ state.decisionTrail[i].card_id = id
            /\ mostRecentEntry(state.decisionTrail, i)
            /\ state.decisionTrail[i].option_index = state.decisionRecords[id]
    /\ \A i \in 1..Len(state.history) :
        isSplitDecisionCard(algo, state.history[i])
            => state.history[i] \in DOMAIN state.decisionRecords

\* a decision passed twice with different options: the record carries the later
\* one while the trail keeps both, and the decision is in history
C38_Witness ==
    /\ Len(state.decisionTrail) >= 2
    /\ state.decisionTrail[1].card_id = "D"
    /\ state.decisionTrail[1].option_index = 0
    /\ state.decisionTrail[2].card_id = "D"
    /\ state.decisionTrail[2].option_index = 1
    /\ "D" \in DOMAIN state.decisionRecords
    /\ state.decisionRecords["D"] = 1
    /\ \E i \in 1..Len(state.history) : state.history[i] = "D"

(* Validity of decisionIndex *)

\* C39: in every reachable state, if the current card is a split decision with n
\* options then 0 <= decisionIndex <= n-1, and if it is not a split decision
\* then decisionIndex is 0 and decisionTapped is false.
C39_DecisionIndexValid ==
    IF isSplitDecisionCard(algo, state.currentId)
    THEN state.decisionIndex \in
             0..(Len(DECK(algo)[state.currentId].transitions.options) - 1)
    ELSE state.decisionIndex = 0 /\ ~state.decisionTapped

\* a decision was confirmed with an option other than the first and left: on the
\* card after it, which is no split decision, the index is back to 0 and no
\* option counts as tapped
C39_Witness ==
    /\ HasCard(algo, state.currentId)
    /\ ~isSplitDecisionCard(algo, state.currentId)
    /\ Len(state.history) > 0
    /\ isSplitDecisionCard(algo, Last(state.history))
    /\ Last(state.history) \in DOMAIN state.decisionRecords
    /\ state.decisionRecords[Last(state.history)] > 0
    /\ state.decisionIndex = 0
    /\ ~state.decisionTapped

(* A single timer interval *)

\* C40: in every reachable state timerRunning is true exactly when a tick
\* interval is installed (timerInterval non-null), and at most one interval
\* exists at a time: an interval is installed only while timerRunning is false,
\* and every reset clears it; so timerSeconds increases by exactly 1 per tick and
\* only while timerRunning is true.
C40_SingleInterval ==
    /\ [](/\ state.timerRunning <=> state.timerInterval # 0
          /\ liveIntervals \in {0, 1}
          /\ liveIntervals = 1 <=> state.timerInterval # 0)
    /\ [][liveIntervals' > liveIntervals => ~state.timerRunning /\ state'.timerRunning]_vars
    /\ [][state'.timerSeconds < state.timerSeconds \/ (state.timerRunning /\ ~state'.timerRunning)
            => liveIntervals' = 0 /\ state'.timerInterval = 0 /\ state'.timerSeconds = 0]_vars
    /\ [][state'.timerSeconds > state.timerSeconds
            => /\ state.timerRunning
               /\ state'.timerRunning
               /\ state'.timerSeconds = state.timerSeconds + 1
               /\ liveIntervals' = liveIntervals]_vars

\* the timer was started by one advance, a second advance found it running and
\* installed nothing, and the one interval has ticked
C40_Witness ==
    /\ Len(state.history) >= 2
    /\ state.timerRunning
    /\ state.timerInterval # 0
    /\ liveIntervals = 1
    /\ state.timerSeconds = 1

====
